---------------------------- MODULE Spec2Model ----------------------------
(***************************************************************************)
(* ClawWallet native privacy module (src/api/src/privacy.ts): stealth      *)
(* key pairs, one-time stealth addresses, ownership check, spend-key       *)
(* derivation, encrypted payment data, the in-memory transfer registry     *)
(* and the scan over it.                                                   *)
(*                                                                         *)
(* The @noble libraries the module calls are modelled by their contracts:  *)
(*  - the ed25519 group is the additive group of integers modulo           *)
(*    curveOrder; the point k*G is written k, the base point is 1;         *)
(*  - ed25519.getPublicKey(seed) is RFC 8032 key generation: the secret    *)
(*    scalar is the clamped SHA-512 expansion of the seed (SecretScalar),  *)
(*    not the seed itself;                                                 *)
(*  - ed25519.getSharedSecret(priv, pub) is the Diffie-Hellman value the   *)
(*    comments of privacy.ts describe: the secret scalar of priv times     *)
(*    the point pub;                                                       *)
(*  - Point.multiply(n) accepts only 1 <= n < curveOrder and throws        *)
(*    otherwise;                                                           *)
(*  - sha256 and the SHA-512 seed expansion are collision-free on the      *)
(*    model's domains; the first byte of a hash is lossy;                  *)
(*  - xchacha20poly1305 is an ideal AEAD: open succeeds exactly on a       *)
(*    ciphertext sealed under the same key and nonce;                      *)
(*  - randomBytes never returns a value it returned before.                *)
(* A hex string is written as the byte value it spells; strings that do    *)
(* not decode are values outside the valid range.                          *)
(*                                                                         *)
(* ClawWallet HTTP API (src/api/src/index.ts): the four in-memory maps     *)
(* and the POST handlers over them.  A handler runs without interruption   *)
(* from the arrival of its request to its response or to its first await   *)
(* of a Sipher call (Node runs one callback at a time); a handler          *)
(* suspended at an await sits in pending until the call settles, and any   *)
(* other handler can run meanwhile.  The Sipher service is external: each  *)
(* call can fail or return any value.  uuidv4 never returns a value it     *)
(* returned before.                                                        *)
(***************************************************************************)
EXTENDS Integers, Sequences, FiniteSets, Bags, TLC

(***************************************************************************)
(* Sizes.  curveOrder, HashSpace and ViewTagSpace are the program's        *)
(* 2^252+..., 2^256 and 256, scaled down so that 2^256 stays larger than   *)
(* the curve order and a view tag stays lossy.                             *)
(***************************************************************************)
curveOrder == 7

HashSpace == 16

ViewTagSpace == 2

MaxIdentities == 2

MaxDerivations == 2

MaxNonces == 2

MaxCallerKey == 1

\* The 32-byte strings randomBytes(32) can return: as many as there are
\* non-zero scalars, so that the seed expansion is collision-free.
Seeds == 0 .. (curveOrder - 2)

\* Encoded points that decode (k stands for k*G).
Points == 0 .. (curveOrder - 1)

\* The value a throwing library call is given in the model.
Throw == 0 - 1

\* A string with a character that is not a hex digit, and 64 hex characters
\* that decode to bytes which are no curve point.
BadHex == 0 - 2

OffCurve == curveOrder

\* The number parseFloat returns for text that starts with no digit.
NaN == 0 - 3

\* utf8ToBytes('clawwallet-stealth') and utf8ToBytes('clawwallet-encrypt'),
\* as the suffix appended to the hashed bytes.
StealthDomain == "clawwallet-stealth"

EncryptDomain == "clawwallet-encrypt"

(***************************************************************************)
(* Library contracts                                                       *)
(***************************************************************************)
\* Clamped SHA-512 expansion of a seed, reduced modulo the curve order
\* (RFC 8032 5.1.5): a non-zero scalar that is not the seed read as a number.
SecretScalar(seed) == 1 + ((seed + 3) % (curveOrder - 1))

\* ed25519.getPublicKey(privateKey): the secret scalar times the base point.
getPublicKey(privateKey) == SecretScalar(privateKey) % curveOrder

\* hexToBytes: throws on a string that is not hex (a negative value here).
hexToBytes(hex) == IF hex < 0 THEN Throw ELSE hex

\* bytesToHex of bytes.
bytesToHex(bytes) == bytes

\* ExtendedPoint.fromHex: throws unless the bytes decode to a curve point.
fromHex(hex) == IF hex \in Points THEN hex ELSE Throw

\* ed25519.getSharedSecret(privateKey, publicKey).
getSharedSecret(privateKey, publicKey) ==
    IF privateKey \notin Seeds \/ publicKey \notin Points
    THEN Throw
    ELSE (SecretScalar(privateKey) * publicKey) % curveOrder

\* Point.multiply(scalar) on the base point: 1 <= scalar < curveOrder.
BaseMultiply(scalar) ==
    IF scalar < 1 \/ scalar >= curveOrder THEN Throw ELSE scalar % curveOrder

\* Point.add.
PointAdd(p, q) == (p + q) % curveOrder

\* sha256 of bytes followed by an optional domain suffix, read as a
\* big-endian number below HashSpace.  Each suffix gives its own bijection.
sha256(bytes, suffix) ==
    LET m == IF suffix = StealthDomain THEN 7
             ELSE IF suffix = EncryptDomain THEN 9 ELSE 5
    IN  (m * bytes + 3) % HashSpace

\* hash[0]: the leading byte of a hash.
FirstByte(hash) == hash \div (HashSpace \div ViewTagSpace)

\* Strings that are not the hex of a key or point: not hex at all, or hex
\* of bytes that are no point and no private key.
Undecodable == {BadHex, OffCurve}

(***************************************************************************)
(* Results of calls that can throw                                         *)
(***************************************************************************)
NoAddress == [address |-> Throw, ephemeralPublicKey |-> Throw, viewTag |-> Throw]

(***************************************************************************)
(* privacy.ts                                                              *)
(***************************************************************************)
\* generateStealthKeyPair with its two randomBytes(32) draws made explicit.
generateStealthKeyPair(spendingPrivateKey, viewingPrivateKey) ==
    LET spendingPublicKey == getPublicKey(spendingPrivateKey)
        viewingPublicKey == getPublicKey(viewingPrivateKey)
        metaAddress == <<bytesToHex(spendingPublicKey), bytesToHex(viewingPublicKey)>>
    IN  [spendingPublicKey |-> bytesToHex(spendingPublicKey),
         viewingPublicKey |-> bytesToHex(viewingPublicKey),
         spendingPrivateKey |-> bytesToHex(spendingPrivateKey),
         viewingPrivateKey |-> bytesToHex(viewingPrivateKey),
         metaAddress |-> metaAddress]

\* A parseMetaAddress that slices the halves the other way round:
\* slice(64) for the spending key and slice(0, 64) for the viewing key.
parseMetaAddressSwapped(metaAddress) ==
    IF 64 * Len(metaAddress) # 128
    THEN [ok |-> FALSE, error |-> "Invalid meta address length",
          spendingPublicKey |-> Throw, viewingPublicKey |-> Throw]
    ELSE IF hexToBytes(metaAddress[1]) = Throw \/ hexToBytes(metaAddress[2]) = Throw
    THEN [ok |-> FALSE, error |-> "hex",
          spendingPublicKey |-> Throw, viewingPublicKey |-> Throw]
    ELSE [ok |-> TRUE, error |-> "",
          spendingPublicKey |-> hexToBytes(metaAddress[2]),
          viewingPublicKey |-> hexToBytes(metaAddress[1])]

\* parseMetaAddress: a meta-address is a sequence of 64-character halves,
\* so its length is 64 * Len; only the length and the hex are checked.
parseMetaAddress(metaAddress) ==
    IF 64 * Len(metaAddress) # 128
    THEN [ok |-> FALSE, error |-> "Invalid meta address length",
          spendingPublicKey |-> Throw, viewingPublicKey |-> Throw]
    ELSE IF hexToBytes(metaAddress[1]) = Throw \/ hexToBytes(metaAddress[2]) = Throw
    THEN [ok |-> FALSE, error |-> "hex",
          spendingPublicKey |-> Throw, viewingPublicKey |-> Throw]
    ELSE [ok |-> TRUE, error |-> "",
          spendingPublicKey |-> hexToBytes(metaAddress[1]),
          viewingPublicKey |-> hexToBytes(metaAddress[2])]

\* A deriveStealthAddress that draws its ephemeral key before it parses
\* the meta-address.
deriveStealthAddressDrawsFirst(recipientMetaAddress) == 1

\* The number of randomBytes(32) calls deriveStealthAddress makes: the draw
\* comes after parseMetaAddress, which throws on a wrong length.
deriveStealthAddressDraws(recipientMetaAddress) ==
    IF parseMetaAddress(recipientMetaAddress).ok THEN 1 ELSE 0

\* deriveStealthAddress with its randomBytes(32) draw made explicit.
deriveStealthAddress(recipientMetaAddress, ephemeralPrivateKey) ==
    LET parsed == parseMetaAddress(recipientMetaAddress)
        ephemeralPublicKey == getPublicKey(ephemeralPrivateKey)
        sharedSecret == getSharedSecret(ephemeralPrivateKey, parsed.viewingPublicKey)
        sharedSecretHash == sha256(sharedSecret, "")
        viewTag == FirstByte(sharedSecretHash)
        tweak == sha256(sharedSecretHash, StealthDomain)
        spendingPoint == fromHex(parsed.spendingPublicKey)
        tweakPoint == BaseMultiply(tweak)
    IN  IF ~parsed.ok THEN [ok |-> FALSE, error |-> parsed.error] @@ NoAddress
        ELSE IF sharedSecret = Throw THEN [ok |-> FALSE, error |-> "point"] @@ NoAddress
        ELSE IF spendingPoint = Throw THEN [ok |-> FALSE, error |-> "point"] @@ NoAddress
        ELSE IF tweakPoint = Throw THEN [ok |-> FALSE, error |-> "scalar"] @@ NoAddress
        ELSE [ok |-> TRUE, error |-> "",
              address |-> bytesToHex(PointAdd(spendingPoint, tweakPoint)),
              ephemeralPublicKey |-> bytesToHex(ephemeralPublicKey),
              viewTag |-> viewTag]

\* The try block of checkStealthOwnership: how it ends (by a throw or by the
\* return of the comparison).
checkStealthOwnershipTry(stealthAddress, ephemeralPublicKey, viewingPrivateKey, spendingPublicKey) ==
    LET sharedSecret == getSharedSecret(hexToBytes(viewingPrivateKey), hexToBytes(ephemeralPublicKey))
        sharedSecretHash == sha256(sharedSecret, "")
        tweak == sha256(sharedSecretHash, StealthDomain)
        spendingPoint == fromHex(spendingPublicKey)
        tweakPoint == BaseMultiply(tweak)
    IN  IF sharedSecret = Throw \/ spendingPoint = Throw \/ tweakPoint = Throw
        THEN [threw |-> TRUE, value |-> FALSE]
        ELSE [threw |-> FALSE,
              value |-> bytesToHex(PointAdd(spendingPoint, tweakPoint)) = stealthAddress]

\* A checkStealthOwnership without the catch: a throw of the try block
\* ends the call.
checkStealthOwnershipUncaught(stealthAddress, ephemeralPublicKey, viewingPrivateKey, spendingPublicKey) ==
    checkStealthOwnershipTry(stealthAddress, ephemeralPublicKey,
                             viewingPrivateKey, spendingPublicKey)

\* How a call of checkStealthOwnership ends: catch { return false }.
checkStealthOwnershipCall(stealthAddress, ephemeralPublicKey, viewingPrivateKey, spendingPublicKey) ==
    LET try == checkStealthOwnershipTry(stealthAddress, ephemeralPublicKey,
                                        viewingPrivateKey, spendingPublicKey)
    IN  IF try.threw THEN [threw |-> FALSE, value |-> FALSE] ELSE try

\* A checkStealthOwnership that hashes the shared secret once, with the
\* domain string, where deriveStealthAddress hashes it twice.
checkStealthOwnershipOneHash(stealthAddress, ephemeralPublicKey, viewingPrivateKey, spendingPublicKey) ==
    LET sharedSecret == getSharedSecret(hexToBytes(viewingPrivateKey), hexToBytes(ephemeralPublicKey))
        tweak == sha256(sharedSecret, StealthDomain)
        spendingPoint == fromHex(spendingPublicKey)
        tweakPoint == BaseMultiply(tweak)
    IN  IF sharedSecret = Throw \/ spendingPoint = Throw \/ tweakPoint = Throw
        THEN FALSE
        ELSE bytesToHex(PointAdd(spendingPoint, tweakPoint)) = stealthAddress

\* checkStealthOwnership: every throw inside the try block gives false.
checkStealthOwnership(stealthAddress, ephemeralPublicKey, viewingPrivateKey, spendingPublicKey) ==
    LET sharedSecret == getSharedSecret(hexToBytes(viewingPrivateKey), hexToBytes(ephemeralPublicKey))
        sharedSecretHash == sha256(sharedSecret, "")
        tweak == sha256(sharedSecretHash, StealthDomain)
        spendingPoint == fromHex(spendingPublicKey)
        tweakPoint == BaseMultiply(tweak)
    IN  IF sharedSecret = Throw \/ spendingPoint = Throw \/ tweakPoint = Throw
        THEN FALSE
        ELSE bytesToHex(PointAdd(spendingPoint, tweakPoint)) = stealthAddress

\* deriveStealthPrivateKey: BigInt('0x' + spendingPrivateKey) is the seed
\* read as a number; the result is the scalar the returned hex spells
\* (Throw when getSharedSecret throws).
deriveStealthPrivateKey(ephemeralPublicKey, viewingPrivateKey, spendingPrivateKey) ==
    LET sharedSecret == getSharedSecret(hexToBytes(viewingPrivateKey), hexToBytes(ephemeralPublicKey))
        sharedSecretHash == sha256(sharedSecret, "")
        tweak == sha256(sharedSecretHash, StealthDomain)
        spendingScalar == spendingPrivateKey
        tweakScalar == tweak
        stealthScalar == (spendingScalar + tweakScalar) % curveOrder
    IN  IF sharedSecret = Throw THEN Throw ELSE stealthScalar

\* BigInt('0x' + bytesToHex(tweak.slice(0, 32))): the number that
\* deriveStealthAddress and checkStealthOwnership hand to BASE.multiply and
\* that deriveStealthPrivateKey adds to the spending scalar, as the code
\* computes it from the two keys of the Diffie-Hellman step.
TweakScalar(privateKey, publicKey) ==
    LET sharedSecret == getSharedSecret(privateKey, publicKey)
        sharedSecretHash == sha256(sharedSecret, "")
    IN  IF sharedSecret = Throw THEN Throw
        ELSE sha256(sharedSecretHash, StealthDomain)

(***************************************************************************)
(* Payment data.  A JavaScript string is a sequence of characters; an      *)
(* optional value (string | undefined) carries a presence flag.            *)
(***************************************************************************)
Undefined == [present |-> FALSE, text |-> <<>>]

Some(text) == [present |-> TRUE, text |-> text]

\* if (value): undefined and the empty string are falsy.
Truthy(value) == value.present /\ value.text # <<>>

DigitChar == <<"0", "1", "2", "3", "4", "5", "6", "7", "8", "9">>

\* amount.toString() of a non-negative whole number.
RECURSIVE NumberToString(_)
NumberToString(n) ==
    IF n < 10 THEN <<DigitChar[n + 1]>>
    ELSE Append(NumberToString(n \div 10), DigitChar[(n % 10) + 1])

DigitValue(c) == CHOOSE d \in 0 .. 9 : DigitChar[d + 1] = c

IsDigit(c) == \E d \in 0 .. 9 : DigitChar[d + 1] = c

\* parseFloat: the number spelled by the longest prefix of digits, NaN when
\* the text starts with no digit.
RECURSIVE ParseDigits(_, _, _)
ParseDigits(text, k, acc) ==
    IF k > Len(text) \/ ~IsDigit(text[k]) THEN acc
    ELSE ParseDigits(text, k + 1, 10 * acc + DigitValue(text[k]))

parseFloat(text) ==
    IF text = <<>> \/ ~IsDigit(text[1]) THEN NaN ELSE ParseDigits(text, 1, 0)

\* xchacha20poly1305(key, nonce).encrypt(plaintext): ciphertext and tag.
\* forged marks bytes that no encrypt call has produced.
Seal(key, nonce, plaintext) ==
    [key |-> key, nonce |-> nonce, plaintext |-> plaintext, forged |-> FALSE]

\* A cipher without the Poly1305 tag: decrypt never throws, and gives
\* other bytes than the plaintext under another key or nonce.
OpenUnauthenticated(key, nonce, ciphertext) ==
    IF ~ciphertext.forged /\ ciphertext.key = key /\ ciphertext.nonce = nonce
    THEN [ok |-> TRUE, plaintext |-> ciphertext.plaintext]
    ELSE [ok |-> TRUE, plaintext |-> <<"?">>]

\* xchacha20poly1305(key, nonce).decrypt(ciphertext): throws unless the tag
\* verifies under this key and nonce.
Open(key, nonce, ciphertext) ==
    IF ~ciphertext.forged /\ ciphertext.key = key /\ ciphertext.nonce = nonce
    THEN [ok |-> TRUE, plaintext |-> ciphertext.plaintext]
    ELSE [ok |-> FALSE, plaintext |-> <<>>]

\* bytesToHex(nonce) + bytesToHex(ciphertext): slice(0, 48) gives the nonce
\* back and slice(48) the ciphertext.
HexField(nonce, ciphertext) ==
    [present |-> TRUE, nonce |-> nonce, ciphertext |-> ciphertext]

NoField == [present |-> FALSE, nonce |-> 0, ciphertext |-> Seal(0, 0, <<>>)]

\* An encryptPaymentData that seals the memo with the nonce it drew for
\* the amount.
encryptPaymentDataOneNonce(amount, memo, ephemeralPrivateKey, recipientViewingPublicKey, nonce, memoNonce) ==
    LET sharedSecret == getSharedSecret(ephemeralPrivateKey, recipientViewingPublicKey)
        encryptionKey == sha256(sharedSecret, EncryptDomain)
        amountBytes == NumberToString(amount)
        encryptedAmount == HexField(nonce, Seal(encryptionKey, nonce, amountBytes))
        encryptedMemo ==
            IF Truthy(memo)
            THEN HexField(nonce, Seal(encryptionKey, nonce, memo.text))
            ELSE NoField
    IN  IF sharedSecret = Throw
        THEN [ok |-> FALSE, error |-> "point",
              encryptedAmount |-> NoField, encryptedMemo |-> NoField]
        ELSE [ok |-> TRUE, error |-> "",
              encryptedAmount |-> encryptedAmount, encryptedMemo |-> encryptedMemo]

\* encryptPaymentData with its randomBytes(24) draws made explicit
\* (memoNonce is drawn only when the memo is truthy).
encryptPaymentData(amount, memo, ephemeralPrivateKey, recipientViewingPublicKey, nonce, memoNonce) ==
    LET sharedSecret == getSharedSecret(ephemeralPrivateKey, recipientViewingPublicKey)
        encryptionKey == sha256(sharedSecret, EncryptDomain)
        amountBytes == NumberToString(amount)
        encryptedAmount == HexField(nonce, Seal(encryptionKey, nonce, amountBytes))
        encryptedMemo ==
            IF Truthy(memo)
            THEN HexField(memoNonce, Seal(encryptionKey, memoNonce, memo.text))
            ELSE NoField
    IN  IF sharedSecret = Throw
        THEN [ok |-> FALSE, error |-> "point",
              encryptedAmount |-> NoField, encryptedMemo |-> NoField]
        ELSE [ok |-> TRUE, error |-> "",
              encryptedAmount |-> encryptedAmount, encryptedMemo |-> encryptedMemo]

\* decryptPaymentData: nothing is caught, so a failed open of either field
\* ends the call with the cipher's error.
decryptPaymentData(encryptedAmount, encryptedMemo, ephemeralPublicKey, viewingPrivateKey) ==
    LET sharedSecret == getSharedSecret(hexToBytes(viewingPrivateKey), hexToBytes(ephemeralPublicKey))
        encryptionKey == sha256(sharedSecret, EncryptDomain)
        amountOpened == Open(encryptionKey, encryptedAmount.nonce, encryptedAmount.ciphertext)
        amount == parseFloat(amountOpened.plaintext)
        memoOpened == Open(encryptionKey, encryptedMemo.nonce, encryptedMemo.ciphertext)
        failed(error) == [ok |-> FALSE, error |-> error, amount |-> NaN, memo |-> Undefined]
    IN  IF sharedSecret = Throw THEN failed("point")
        ELSE IF ~amountOpened.ok THEN failed("auth")
        ELSE IF encryptedMemo.present
        THEN IF ~memoOpened.ok THEN failed("auth")
             ELSE [ok |-> TRUE, error |-> "", amount |-> amount,
                   memo |-> Some(memoOpened.plaintext)]
        ELSE [ok |-> TRUE, error |-> "", amount |-> amount, memo |-> Undefined]

(***************************************************************************)
(* Registry.  privateTransfers is a Map keyed by id: a sequence of         *)
(* records in insertion order, with one record per id.                     *)
(***************************************************************************)
\* An array push in place of Map.prototype.set: every record goes last,
\* whether or not its id is already there.
MapPush(map, transfer) == Append(map, transfer)

\* A set that deletes the entry of an existing key and inserts the record
\* anew, so that a record registered again goes last.
MapSetReinserted(map, transfer) ==
    Append(SelectSeq(map, LAMBDA t : t.id # transfer.id), transfer)

\* Map.prototype.set: a new key goes last, an existing key keeps its place.
MapSet(map, transfer) ==
    IF \E k \in 1 .. Len(map) : map[k].id = transfer.id
    THEN [k \in 1 .. Len(map) |->
            IF map[k].id = transfer.id THEN transfer ELSE map[k]]
    ELSE Append(map, transfer)

\* afterTimestamp?: number.
NoTimestamp == [present |-> FALSE, value |-> 0]

Since(value) == [present |-> TRUE, value |-> value]

\* A scan loop that stops at the view-tag filter and pushes every record
\* whose tag matches, without the full ownership check.
RECURSIVE ScanLoopTagOnly(_, _, _, _, _, _)
ScanLoopTagOnly(map, k, found, viewingPrivateKey, spendingPublicKey, afterTimestamp) ==
    IF k > Len(map) THEN [ok |-> TRUE, error |-> "", found |-> found]
    ELSE
      LET transfer == map[k]
          next(f) == ScanLoopTagOnly(map, k + 1, f, viewingPrivateKey, spendingPublicKey, afterTimestamp)
          sharedSecret == getSharedSecret(hexToBytes(viewingPrivateKey),
                                          hexToBytes(transfer.ephemeralPublicKey))
          expectedViewTag == FirstByte(sha256(sharedSecret, ""))
      IN  IF afterTimestamp.present /\ afterTimestamp.value # 0
             /\ transfer.timestamp < afterTimestamp.value
          THEN next(found)
          ELSE IF sharedSecret = Throw
          THEN [ok |-> FALSE, error |-> "point", found |-> <<>>]
          ELSE IF expectedViewTag # transfer.viewTag THEN next(found)
          ELSE next(Append(found, transfer))

\* A scan loop whose bound is exclusive: it skips a record whose timestamp
\* equals afterTimestamp.
RECURSIVE ScanLoopExclusiveBound(_, _, _, _, _, _)
ScanLoopExclusiveBound(map, k, found, viewingPrivateKey, spendingPublicKey, afterTimestamp) ==
    IF k > Len(map) THEN [ok |-> TRUE, error |-> "", found |-> found]
    ELSE
      LET transfer == map[k]
          next(f) == ScanLoopExclusiveBound(map, k + 1, f, viewingPrivateKey,
                                            spendingPublicKey, afterTimestamp)
          sharedSecret == getSharedSecret(hexToBytes(viewingPrivateKey),
                                          hexToBytes(transfer.ephemeralPublicKey))
          expectedViewTag == FirstByte(sha256(sharedSecret, ""))
      IN  IF afterTimestamp.present /\ afterTimestamp.value # 0
             /\ transfer.timestamp <= afterTimestamp.value
          THEN next(found)
          ELSE IF sharedSecret = Throw
          THEN [ok |-> FALSE, error |-> "point", found |-> <<>>]
          ELSE IF expectedViewTag # transfer.viewTag THEN next(found)
          ELSE IF checkStealthOwnership(transfer.stealthAddress, transfer.ephemeralPublicKey,
                                        viewingPrivateKey, spendingPublicKey)
          THEN next(Append(found, transfer))
          ELSE next(found)

\* A scan loop that tests the bound with `afterTimestamp !== undefined`:
\* a bound of zero filters like any other number.
RECURSIVE ScanLoopZeroIsBound(_, _, _, _, _, _)
ScanLoopZeroIsBound(map, k, found, viewingPrivateKey, spendingPublicKey, afterTimestamp) ==
    IF k > Len(map) THEN [ok |-> TRUE, error |-> "", found |-> found]
    ELSE
      LET transfer == map[k]
          next(f) == ScanLoopZeroIsBound(map, k + 1, f, viewingPrivateKey,
                                         spendingPublicKey, afterTimestamp)
          sharedSecret == getSharedSecret(hexToBytes(viewingPrivateKey),
                                          hexToBytes(transfer.ephemeralPublicKey))
          expectedViewTag == FirstByte(sha256(sharedSecret, ""))
      IN  IF afterTimestamp.present
             /\ transfer.timestamp < afterTimestamp.value
          THEN next(found)
          ELSE IF sharedSecret = Throw
          THEN [ok |-> FALSE, error |-> "point", found |-> <<>>]
          ELSE IF expectedViewTag # transfer.viewTag THEN next(found)
          ELSE IF checkStealthOwnership(transfer.stealthAddress, transfer.ephemeralPublicKey,
                                        viewingPrivateKey, spendingPublicKey)
          THEN next(Append(found, transfer))
          ELSE next(found)

\* The loop of scanForPayments from position k on, with the records found
\* so far.  getSharedSecret is called outside any try block.
RECURSIVE ScanLoop(_, _, _, _, _, _)
ScanLoop(map, k, found, viewingPrivateKey, spendingPublicKey, afterTimestamp) ==
    IF k > Len(map) THEN [ok |-> TRUE, error |-> "", found |-> found]
    ELSE
      LET transfer == map[k]
          next(f) == ScanLoop(map, k + 1, f, viewingPrivateKey, spendingPublicKey, afterTimestamp)
          sharedSecret == getSharedSecret(hexToBytes(viewingPrivateKey),
                                          hexToBytes(transfer.ephemeralPublicKey))
          expectedViewTag == FirstByte(sha256(sharedSecret, ""))
      IN  IF afterTimestamp.present /\ afterTimestamp.value # 0
             /\ transfer.timestamp < afterTimestamp.value
          THEN next(found)
          ELSE IF sharedSecret = Throw
          THEN [ok |-> FALSE, error |-> "point", found |-> <<>>]
          ELSE IF expectedViewTag # transfer.viewTag THEN next(found)
          ELSE IF checkStealthOwnership(transfer.stealthAddress, transfer.ephemeralPublicKey,
                                        viewingPrivateKey, spendingPublicKey)
          THEN next(Append(found, transfer))
          ELSE next(found)

\* A scan whose iteration visits the records a second time, as an iterator
\* restarted by a change of the collection would.
scanForPaymentsRestarted(map, viewingPrivateKey, spendingPublicKey, afterTimestamp) ==
    ScanLoop(map \o map, 1, <<>>, viewingPrivateKey, spendingPublicKey, afterTimestamp)

\* scanForPayments is synchronous: it runs from the call to the return with
\* no await, so no other call runs between two iterations of its loop.
scanForPayments(map, viewingPrivateKey, spendingPublicKey, afterTimestamp) ==
    ScanLoop(map, 1, <<>>, viewingPrivateKey, spendingPublicKey, afterTimestamp)

(***************************************************************************)
(* State                                                                   *)
(***************************************************************************)
VARIABLES
    identities,        \* the key pairs generateStealthKeyPair has returned
    derived,           \* the calls of deriveStealthAddress that returned
    payload,           \* the latest call of encryptPaymentData: inputs, result
    drawnNonces,       \* the values randomBytes(24) has returned
    privateTransfers,  \* the registry
    returned,          \* the latest call of a function that only returns,
                       \* or the latest response of the HTTP API
    wallets,           \* Map walletId -> Wallet
    walletsByAgent,    \* Map agentId -> walletId
    transactions,      \* Map walletId -> Transaction[]
    apiKeys,           \* Map apiKey -> walletId
    pending            \* the handlers suspended at an await (a bag: two
                       \* handlers can hold the same locals)

vars == <<identities, derived, payload, drawnNonces, privateTransfers, returned,
          wallets, walletsByAgent, transactions, apiKeys, pending>>

\* The state of the HTTP API, which the functions of privacy.ts never touch.
apiVars == <<wallets, walletsByAgent, transactions, apiKeys, pending>>

\* The state of privacy.ts, which the HTTP API never touches.
privacyVars == <<identities, derived, payload, drawnNonces, privateTransfers>>

\* new Map().
EmptyMap == [key \in {} |-> ""]

NoCall == [fn |-> "none"]

NoPayload == [called |-> FALSE]

\* The functions are synchronous: a call starts after the caller has taken
\* the value the previous call returned.
Idle == returned = NoCall

\* The 32-byte values randomBytes has returned so far and that went into a
\* returned key or address.
DrawnSeeds ==
    UNION {{i.spendingPrivateKey, i.viewingPrivateKey} : i \in identities}
      \cup {d.ephemeralPrivateKey : d \in derived}

TransferIds == {"t1", "t2"}

Timestamps == {10, 20}

Amounts == {7, 25}

Memos == {Undefined, Some(<<>>), Some(<<"4", "2">>)}

\* The 24-byte strings randomBytes(24) can return.
Nonces == 0 .. (MaxNonces - 1)

Init ==
    /\ identities = {}
    /\ derived = {}
    /\ payload = NoPayload
    /\ drawnNonces = {}
    /\ privateTransfers = <<>>
    /\ returned = NoCall
    /\ wallets = EmptyMap
    /\ walletsByAgent = EmptyMap
    /\ transactions = EmptyMap
    /\ apiKeys = EmptyMap
    /\ pending = EmptyBag

GenerateStealthKeyPair ==
    /\ Idle
    /\ Cardinality(identities) < MaxIdentities
    /\ \E s \in Seeds \ DrawnSeeds :
         \E v \in Seeds \ (DrawnSeeds \cup {s}) :
            identities' = identities \cup {generateStealthKeyPair(s, v)}
    /\ returned' = NoCall
    /\ UNCHANGED <<apiVars, derived, payload, drawnNonces, privateTransfers>>

\* A deriveStealthAddress whose draw can repeat the ephemeral key of an
\* earlier call.
DeriveStealthAddressRepeatedDraw ==
    /\ Idle
    /\ Cardinality(derived) < MaxDerivations
    /\ \E i \in identities :
         \E e \in Seeds \ UNION {{j.spendingPrivateKey, j.viewingPrivateKey} : j \in identities} :
            LET call == [recipientMetaAddress |-> i.metaAddress,
                         ephemeralPrivateKey |-> e,
                         result |-> deriveStealthAddress(i.metaAddress, e)]
            IN  IF call.result.ok
                THEN /\ derived' = derived \cup {call}
                     /\ returned' = NoCall
                ELSE /\ derived' = derived
                     /\ returned' = [fn |-> "deriveStealthAddress",
                                     draws |-> deriveStealthAddressDraws(i.metaAddress)]
                                       @@ call
    /\ UNCHANGED <<apiVars, identities, payload, drawnNonces, privateTransfers>>

DeriveStealthAddress ==
    /\ Idle
    /\ Cardinality(derived) < MaxDerivations
    /\ \E i \in identities :
         \E e \in Seeds \ DrawnSeeds :
            LET call == [recipientMetaAddress |-> i.metaAddress,
                         ephemeralPrivateKey |-> e,
                         result |-> deriveStealthAddress(i.metaAddress, e)]
            IN  IF call.result.ok
                THEN /\ derived' = derived \cup {call}
                     /\ returned' = NoCall
                ELSE /\ derived' = derived
                     /\ returned' = [fn |-> "deriveStealthAddress",
                                     draws |-> deriveStealthAddressDraws(i.metaAddress)]
                                       @@ call
    /\ UNCHANGED <<apiVars, identities, payload, drawnNonces, privateTransfers>>

\* The records senders hold: the derivations that returned.
Derived == derived

\* Strings that are not a meta-address: of 0, 64 or 192 characters, or of
\* 128 characters with a half that is not hex or not a point.
MalformedMetaAddresses ==
    {<<>>, <<1>>, <<1, 2, 3>>}
      \cup {<<h, 1>> : h \in Undecodable} \cup {<<1, h>> : h \in Undecodable}

\* parseMetaAddress on the meta-address of a key pair or on a string that
\* is not one.
ParseMetaAddress ==
    /\ Idle
    /\ \E metaAddress \in {i.metaAddress : i \in identities} \cup MalformedMetaAddresses :
          returned' = [fn |-> "parseMetaAddress",
                       metaAddress |-> metaAddress,
                       value |-> parseMetaAddress(metaAddress)]
    /\ UNCHANGED <<apiVars, identities, derived, payload, drawnNonces, privateTransfers>>

\* deriveStealthAddress on a string that is not a meta-address; e is the
\* value randomBytes returns if the call reaches it.
DeriveStealthAddressMalformed ==
    /\ Idle
    /\ \E recipientMetaAddress \in MalformedMetaAddresses :
       \E e \in Seeds \ DrawnSeeds :
          returned' = [fn |-> "deriveStealthAddress",
                       draws |-> deriveStealthAddressDraws(recipientMetaAddress),
                       recipientMetaAddress |-> recipientMetaAddress,
                       ephemeralPrivateKey |-> e,
                       result |-> deriveStealthAddress(recipientMetaAddress, e)]
    /\ UNCHANGED <<apiVars, identities, derived, payload, drawnNonces, privateTransfers>>

\* The call of checkStealthOwnership on four strings.
CheckedOwnership(stealthAddress, ephemeralPublicKey, viewingPrivateKey, spendingPublicKey) ==
    [fn |-> "checkStealthOwnership",
     stealthAddress |-> stealthAddress,
     ephemeralPublicKey |-> ephemeralPublicKey,
     viewingPrivateKey |-> viewingPrivateKey,
     spendingPublicKey |-> spendingPublicKey,
     threw |-> checkStealthOwnershipCall(stealthAddress, ephemeralPublicKey,
                  viewingPrivateKey, spendingPublicKey).threw,
     value |-> checkStealthOwnership(stealthAddress, ephemeralPublicKey,
                  viewingPrivateKey, spendingPublicKey)]

\* checkStealthOwnership on the values of a derivation and of a key pair.
CheckStealthOwnership ==
    /\ Idle
    /\ \E d \in Derived : \E i \in identities :
          returned' = CheckedOwnership(d.result.address, d.result.ephemeralPublicKey,
                                       i.viewingPrivateKey, i.spendingPublicKey)
    /\ UNCHANGED <<apiVars, identities, derived, payload, drawnNonces, privateTransfers>>

\* checkStealthOwnership with one or more of the four arguments replaced,
\* in every combination, by an undecodable string.
CheckStealthOwnershipMalformed ==
    /\ Idle
    /\ \E d \in Derived : \E i \in identities :
       \E stealthAddress \in {d.result.address} \cup Undecodable :
       \E ephemeralPublicKey \in {d.result.ephemeralPublicKey} \cup Undecodable :
       \E viewingPrivateKey \in {i.viewingPrivateKey} \cup Undecodable :
       \E spendingPublicKey \in {i.spendingPublicKey} \cup Undecodable :
          /\ \/ stealthAddress \in Undecodable
             \/ ephemeralPublicKey \in Undecodable
             \/ viewingPrivateKey \in Undecodable
             \/ spendingPublicKey \in Undecodable
          /\ returned' = CheckedOwnership(stealthAddress, ephemeralPublicKey,
                                          viewingPrivateKey, spendingPublicKey)
    /\ UNCHANGED <<apiVars, identities, derived, payload, drawnNonces, privateTransfers>>

DeriveStealthPrivateKey ==
    /\ Idle
    /\ \E d \in Derived : \E i \in identities :
          returned' = [fn |-> "deriveStealthPrivateKey",
                       stealthAddress |-> d.result.address,
                       ephemeralPublicKey |-> d.result.ephemeralPublicKey,
                       viewingPrivateKey |-> i.viewingPrivateKey,
                       spendingPrivateKey |-> i.spendingPrivateKey,
                       value |-> deriveStealthPrivateKey(d.result.ephemeralPublicKey,
                                    i.viewingPrivateKey, i.spendingPrivateKey)]
    /\ UNCHANGED <<apiVars, identities, derived, payload, drawnNonces, privateTransfers>>

\* The 32-byte private keys a caller of the payment-data functions passes:
\* keys of its own choosing, an ephemeral key of a derivation, a viewing key
\* of a generated key pair.
CallerKeys == 0 .. MaxCallerKey

EphemeralPrivateKeys == CallerKeys \cup {d.ephemeralPrivateKey : d \in Derived}

ViewingPrivateKeys == CallerKeys \cup {i.viewingPrivateKey : i \in identities}

EncryptPaymentData ==
    /\ Idle
    /\ \E amount \in Amounts : \E memo \in Memos :
       \E ephemeralPrivateKey \in EphemeralPrivateKeys :
       \E recipientViewingPublicKey \in {getPublicKey(v) : v \in ViewingPrivateKeys} :
       \E nonce \in Nonces \ drawnNonces :
       \E memoNonce \in (IF Truthy(memo) THEN Nonces \ (drawnNonces \cup {nonce})
                                          ELSE {nonce}) :
          /\ drawnNonces' = drawnNonces \cup {nonce, memoNonce}
          /\ payload' = [called |-> TRUE,
                         amount |-> amount,
                         memo |-> memo,
                         ephemeralPrivateKey |-> ephemeralPrivateKey,
                         recipientViewingPublicKey |-> recipientViewingPublicKey,
                         result |-> encryptPaymentData(amount, memo, ephemeralPrivateKey,
                                       recipientViewingPublicKey, nonce, memoNonce)]
    /\ returned' = NoCall
    /\ UNCHANGED <<apiVars, identities, derived, privateTransfers>>

\* The fields encryptPaymentData produced in the latest call.
SealedFields ==
    {f \in {payload.result.encryptedAmount, payload.result.encryptedMemo} : f.present}

\* What a stored field can be changed into: any nonce in front of any of
\* the sealed ciphertexts or of bytes no encrypt call produced.
FieldValues ==
    LET sealed == {f.ciphertext : f \in SealedFields}
        other == {[c EXCEPT !.forged = TRUE] : c \in sealed}
    IN  {HexField(n, c) : n \in Nonces, c \in sealed \cup other}

\* The ephemeral public key and the viewing private key that belong to the
\* latest encryptPaymentData call.
RightKeys(ephemeralPublicKey, viewingPrivateKey) ==
    /\ ephemeralPublicKey = bytesToHex(getPublicKey(payload.ephemeralPrivateKey))
    /\ getPublicKey(hexToBytes(viewingPrivateKey)) = payload.recipientViewingPublicKey

\* decryptPaymentData on the stored fields with any keys, or with the
\* right keys on fields changed after encryption.
DecryptPaymentData ==
    /\ Idle
    /\ payload.called /\ payload.result.ok
    /\ \E ephemeralPublicKey \in {bytesToHex(getPublicKey(e)) : e \in EphemeralPrivateKeys} :
       \E viewingPrivateKey \in {bytesToHex(v) : v \in ViewingPrivateKeys} :
       \E encryptedAmount \in FieldValues :
       \E encryptedMemo \in
             (IF payload.result.encryptedMemo.present THEN FieldValues ELSE {NoField}) :
          /\ \/ /\ encryptedAmount = payload.result.encryptedAmount
                /\ encryptedMemo = payload.result.encryptedMemo
             \/ RightKeys(ephemeralPublicKey, viewingPrivateKey)
          /\ returned' = [fn |-> "decryptPaymentData",
                          encryptedAmount |-> encryptedAmount,
                          encryptedMemo |-> encryptedMemo,
                          ephemeralPublicKey |-> ephemeralPublicKey,
                          viewingPrivateKey |-> viewingPrivateKey,
                          value |-> decryptPaymentData(encryptedAmount, encryptedMemo,
                                       ephemeralPublicKey, viewingPrivateKey)]
    /\ UNCHANGED <<apiVars, identities, derived, payload, drawnNonces, privateTransfers>>

\* A sender of the scenario encrypts an amount under the ephemeral key of
\* its derivation, for the viewing public key of the meta-address it
\* derived against.
SenderEncrypts ==
    /\ Idle
    /\ ~payload.called
    /\ \E d \in Derived : \E amount \in Amounts : \E memo \in Memos :
       \E nonce \in Nonces \ drawnNonces :
       \E memoNonce \in (IF Truthy(memo) THEN Nonces \ (drawnNonces \cup {nonce})
                                          ELSE {nonce}) :
          LET recipientViewingPublicKey ==
                 parseMetaAddress(d.recipientMetaAddress).viewingPublicKey
          IN  /\ drawnNonces' = drawnNonces \cup {nonce, memoNonce}
              /\ payload' = [called |-> TRUE,
                             amount |-> amount,
                             memo |-> memo,
                             ephemeralPrivateKey |-> d.ephemeralPrivateKey,
                             recipientViewingPublicKey |-> recipientViewingPublicKey,
                             result |-> encryptPaymentData(amount, memo,
                                           d.ephemeralPrivateKey,
                                           recipientViewingPublicKey, nonce, memoNonce)]
    /\ returned' = NoCall
    /\ UNCHANGED <<apiVars, identities, derived, privateTransfers>>

ViewTags == 0 .. (ViewTagSpace - 1)

\* The PrivateTransfer a sender builds from its derivation d.
TransferOf(id, d, ephemeralPublicKey, viewTag, encryptedAmount, encryptedMemo, timestamp) ==
    [id |-> id,
     stealthAddress |-> d.result.address,
     ephemeralPublicKey |-> ephemeralPublicKey,
     viewTag |-> viewTag,
     encryptedAmount |-> encryptedAmount,
     encryptedMemo |-> encryptedMemo,
     timestamp |-> timestamp]

\* The records a caller can build from the derivation d: the record as
\* produced, and the record with one field changed into another view tag,
\* an ephemeral public key that is not hex or not a point, or a stealth
\* address that is not hex.  The encrypted fields play no part in a scan
\* and are left empty here.
TransfersFrom(id, d, timestamp) ==
    LET produced == TransferOf(id, d, d.result.ephemeralPublicKey, d.result.viewTag,
                               NoField, NoField, timestamp)
    IN  {produced}
          \cup {[produced EXCEPT !.viewTag = t] : t \in ViewTags}
          \cup {[produced EXCEPT !.ephemeralPublicKey = e] : e \in {BadHex, OffCurve}}
          \cup {[produced EXCEPT !.stealthAddress = BadHex]}

\* registerPrivateTransfer on any record: the function checks nothing.
RegisterPrivateTransfer ==
    /\ Idle
    /\ \E id \in TransferIds : \E d \in Derived : \E timestamp \in Timestamps :
       \E transfer \in TransfersFrom(id, d, timestamp) :
          /\ privateTransfers' = MapSet(privateTransfers, transfer)
          /\ returned' = [fn |-> "registerPrivateTransfer", transfer |-> transfer]
    /\ UNCHANGED <<apiVars, identities, derived, payload, drawnNonces>>

\* The timestamps of the records senders register as produced: timestamp
\* is a number the caller supplies, before, at and after the epoch.
SignedTimestamps == {0 - 5, 0, 10}

\* registerPrivateTransfer on the record of a derivation as its sender
\* produced it.
RegisterProducedTransfer ==
    /\ Idle
    /\ \E id \in TransferIds : \E d \in Derived : \E timestamp \in SignedTimestamps :
          LET transfer == TransferOf(id, d, d.result.ephemeralPublicKey,
                                     d.result.viewTag, NoField, NoField, timestamp)
          IN  /\ privateTransfers' = MapSet(privateTransfers, transfer)
              /\ returned' = [fn |-> "registerPrivateTransfer", transfer |-> transfer]
    /\ UNCHANGED <<apiVars, identities, derived, payload, drawnNonces>>

\* The sender of the scenario registers the record of its derivation, with
\* the fields it encrypted, in the empty registry.
SenderRegisters ==
    /\ Idle
    /\ privateTransfers = <<>>
    /\ payload.called /\ payload.result.ok
    /\ \E id \in TransferIds : \E timestamp \in Timestamps :
       \E d \in {x \in Derived : x.ephemeralPrivateKey = payload.ephemeralPrivateKey} :
          LET transfer == TransferOf(id, d, d.result.ephemeralPublicKey,
                                     d.result.viewTag,
                                     payload.result.encryptedAmount,
                                     payload.result.encryptedMemo, timestamp)
          IN  /\ privateTransfers' = MapSet(privateTransfers, transfer)
              /\ returned' = [fn |-> "registerPrivateTransfer", transfer |-> transfer]
    /\ UNCHANGED <<apiVars, identities, derived, payload, drawnNonces>>

\* The recipient side of the scenario: decryptPaymentData on the fields of
\* a registered record, with the viewing private key of a key pair.
RecipientDecrypts ==
    /\ Idle
    /\ \E r \in 1 .. Len(privateTransfers) : \E i \in identities :
          LET transfer == privateTransfers[r]
          IN  /\ transfer.encryptedAmount.present
              /\ returned' = [fn |-> "decryptPaymentData",
                              encryptedAmount |-> transfer.encryptedAmount,
                              encryptedMemo |-> transfer.encryptedMemo,
                              ephemeralPublicKey |-> transfer.ephemeralPublicKey,
                              viewingPrivateKey |-> i.viewingPrivateKey,
                              value |-> decryptPaymentData(transfer.encryptedAmount,
                                           transfer.encryptedMemo,
                                           transfer.ephemeralPublicKey,
                                           i.viewingPrivateKey)]
    /\ UNCHANGED <<apiVars, identities, derived, payload, drawnNonces, privateTransfers>>

AfterTimestamps == {NoTimestamp, Since(0), Since(10), Since(20)}

\* A scanForPayments that empties the registry it has read.
ScanForPaymentsDraining ==
    /\ Idle
    /\ \E i \in identities : \E afterTimestamp \in AfterTimestamps :
          returned' = [fn |-> "scanForPayments",
                       viewingPrivateKey |-> i.viewingPrivateKey,
                       spendingPublicKey |-> i.spendingPublicKey,
                       afterTimestamp |-> afterTimestamp,
                       value |-> scanForPayments(privateTransfers,
                                    i.viewingPrivateKey, i.spendingPublicKey,
                                    afterTimestamp)]
    /\ privateTransfers' = <<>>
    /\ UNCHANGED <<apiVars, identities, derived, payload, drawnNonces>>

\* scanForPayments with the keys of a generated key pair.
ScanForPayments ==
    /\ Idle
    /\ \E i \in identities : \E afterTimestamp \in AfterTimestamps :
          returned' = [fn |-> "scanForPayments",
                       viewingPrivateKey |-> i.viewingPrivateKey,
                       spendingPublicKey |-> i.spendingPublicKey,
                       afterTimestamp |-> afterTimestamp,
                       value |-> scanForPayments(privateTransfers,
                                    i.viewingPrivateKey, i.spendingPublicKey,
                                    afterTimestamp)]
    /\ UNCHANGED <<apiVars, identities, derived, payload, drawnNonces, privateTransfers>>

\* The caller takes the returned value.
TakeReturned ==
    /\ ~Idle
    /\ returned' = NoCall
    /\ UNCHANGED <<apiVars, identities, derived, payload, drawnNonces, privateTransfers>>

(***************************************************************************)
(* index.ts: storage.  A Map is a function on its keys; undefined and a    *)
(* missing field are Unset.  A wallet keeps the fields the handlers read   *)
(* or write after creation (address is a function of agentId, balance      *)
(* stays 0, createdAt is never read back).  Amounts are counted in units   *)
(* of 1/UnitsPerSol SOL, so that the fee, amount * 0.005, is whole.        *)
(***************************************************************************)
Unset == ""

UnitsPerSol == 2000

MaxWallets == 2

MaxPending == 2

\* The number of suspended handlers beside which a handler of a transfer route
\* (send, send-to-agent, scan-private, claim-private) may suspend.
MaxTransfersPending == 1

\* A request that records transactions is taken while fewer than this many
\* records are held or due from suspended handlers.
MaxTransactions == 1

AgentIds == {"a1", "a2"}

\* The values uuidv4() returns, in the order it returns them: the n-th
\* wallet id and the n-th API key (two more uuids, joined).
WalletIdDrawn == <<"w1", "w2", "w3", "w4", "w5">>

ApiKeyDrawn == <<"k1", "k2", "k3", "k4", "k5">>

\* Map.prototype.get, for maps whose values are strings.
MapGet(map, key) == IF key \in DOMAIN map THEN map[key] ELSE Unset

\* Map.prototype.set.
Put(map, key, value) ==
    [k \in DOMAIN map \cup {key} |-> IF k = key THEN value ELSE map[k]]

\* The pending handlers and one more.
Await(handler) == pending (+) SetToBag({handler})

\* The pending handlers without one of them.
Settled(handler) == pending (-) SetToBag({handler})

\* The handlers of a route that are suspended.
Awaiting(route) == {handler \in BagToSet(pending) : handler.route = route}

\* A handler suspended at its await, with the locals it reads afterwards.
Suspended(route, walletId, apiKey, agentId, peer, amount, isPrivate) ==
    [route |-> route, walletId |-> walletId, apiKey |-> apiKey,
     agentId |-> agentId, peer |-> peer, amount |-> amount,
     isPrivate |-> isPrivate]

\* The wallet ids uuidv4 has returned: those of the wallets and those held
\* by the create and register handlers that are suspended.
DrawnIds ==
    DOMAIN wallets
      \cup {handler.walletId :
              handler \in Awaiting("POST /v1/register")
                             \cup Awaiting("POST /v1/wallet/create")}

NextDraw == Cardinality(DrawnIds) + 1

(***************************************************************************)
(* index.ts: the Sipher service                                            *)
(***************************************************************************)
\* let stealthKeys: SipherStealthKeys | undefined.
NoStealthKeys ==
    [defined |-> FALSE, metaAddress |-> Unset,
     spendingPrivateKey |-> Unset, viewingPrivateKey |-> Unset]

\* The key sets /v1/stealth/generate returns: a generated key set is one
\* that no wallet holds (the first such, as only the equality of key sets
\* matters).
SipherKeysDrawn == <<"s1", "s2", "s3", "s4", "s5">>

HeldKeys == {wallets[w].stealthMetaAddress : w \in DOMAIN wallets}

FreshKeys ==
    SipherKeysDrawn[CHOOSE n \in 1 .. Len(SipherKeysDrawn) :
                       /\ SipherKeysDrawn[n] \notin HeldKeys
                       /\ \A m \in 1 .. (n - 1) : SipherKeysDrawn[m] \in HeldKeys]

StealthKeys(s) ==
    [defined |-> TRUE, metaAddress |-> s,
     spendingPrivateKey |-> s, viewingPrivateKey |-> s]

\* How `await generateStealthKeys(label)` can settle: sipherRequest throws
\* (fetch fails, or data.success is false) or returns data.data.
GenerateStealthKeysOutcomes ==
    {[ok |-> FALSE, data |-> NoStealthKeys]}
      \cup {[ok |-> TRUE, data |-> StealthKeys(FreshKeys)]}

(***************************************************************************)
(* index.ts: authMiddleware and the requests                               *)
(***************************************************************************)
\* No Authorization header, or one that does not start with 'Bearer '.
NoHeader == "no header"

\* The Authorization headers of requests: none, a key never issued, and
\* every key issued so far.
Authorizations == {NoHeader, "k0"} \cup DOMAIN apiKeys

\* A middleware that calls next() for every request, with req.walletId
\* undefined when apiKeys does not hold the key.
authMiddlewareLenient(authorization) ==
    [status |-> 200, error |-> "", walletId |-> MapGet(apiKeys, authorization)]

\* authMiddleware: 401 without a header or with a key that apiKeys does not
\* hold; otherwise next() with req.walletId set.
authMiddleware(authorization) ==
    IF authorization = NoHeader
    THEN [status |-> 401, error |-> "Missing API key", walletId |-> Unset]
    ELSE IF MapGet(apiKeys, authorization) = Unset
    THEN [status |-> 401, error |-> "Invalid API key", walletId |-> Unset]
    ELSE [status |-> 200, error |-> "", walletId |-> apiKeys[authorization]]

\* A wallet whose privacy flag follows the request, as its points do.
NewWalletFlagFromRequest(id, agentId, apiKey, enablePrivacy, stealthKeys) ==
    [id |-> id,
     agentId |-> agentId,
     points |-> IF enablePrivacy THEN 150 ELSE 100,
     txCount |-> 0,
     apiKey |-> apiKey,
     privacyEnabled |-> enablePrivacy,
     stealthMetaAddress |-> stealthKeys.metaAddress,
     stealthSpendingKey |-> stealthKeys.spendingPrivateKey,
     stealthViewingKey |-> stealthKeys.viewingPrivateKey]

\* The wallet a handler builds before it inserts it (lines 249-263 and
\* 304-318).
NewWallet(id, agentId, apiKey, enablePrivacy, stealthKeys) ==
    [id |-> id,
     agentId |-> agentId,
     points |-> IF enablePrivacy THEN 150 ELSE 100,
     txCount |-> 0,
     apiKey |-> apiKey,
     privacyEnabled |-> stealthKeys.defined,
     stealthMetaAddress |-> stealthKeys.metaAddress,
     stealthSpendingKey |-> stealthKeys.spendingPrivateKey,
     stealthViewingKey |-> stealthKeys.viewingPrivateKey]

\* wallets.set(id, wallet); walletsByAgent.set(agentId, id);
\* apiKeys.set(apiKey, id); transactions.set(id, []).
InsertWallet(wallet) ==
    /\ wallets' = Put(wallets, wallet.id, wallet)
    /\ walletsByAgent' = Put(walletsByAgent, wallet.agentId, wallet.id)
    /\ apiKeys' = Put(apiKeys, wallet.apiKey, wallet.id)
    /\ transactions' = Put(transactions, wallet.id, <<>>)

\* A response: the route, the caller and the wallet or agent named in the
\* request it answers, the status, and the fields of the JSON body.
Response(fn, request, status, body) ==
    [fn |-> fn, request |-> request, status |-> status, body |-> body]

\* The bodies of error responses.
Error(message) == [error |-> message]

(***************************************************************************)
(* POST /v1/register                                                       *)
(***************************************************************************)
\* A register without the lookup of the existing wallet: it creates a
\* wallet for every request, as for a new agent.
RegisterAlwaysCreates ==
    /\ Idle
    /\ \E agentId \in AgentIds : \E enablePrivacy \in BOOLEAN :
          LET fn == "POST /v1/register"
              request == [agentId |-> agentId, enablePrivacy |-> enablePrivacy]
          IN  /\ NextDraw <= MaxWallets
              /\ LET id == WalletIdDrawn[NextDraw]
                     apiKey == ApiKeyDrawn[NextDraw]
                     wallet == NewWallet(id, agentId, apiKey, FALSE, NoStealthKeys)
                 IN  /\ InsertWallet(wallet)
                     /\ returned' =
                           Response(fn, request, 200,
                              [walletId |-> id,
                               apiKey |-> apiKey,
                               privacyEnabled |-> wallet.privacyEnabled,
                               stealthMetaAddress |-> wallet.stealthMetaAddress,
                               isNew |-> TRUE,
                               welcomeBonus |-> wallet.points])
                     /\ UNCHANGED pending
    /\ UNCHANGED privacyVars

\* The handler up to its response, or up to the await of
\* generateStealthKeys when enablePrivacy is set.
Register ==
    /\ Idle
    /\ \E agentId \in AgentIds \cup {Unset} : \E enablePrivacy \in BOOLEAN :
          LET fn == "POST /v1/register"
              request == [agentId |-> agentId, enablePrivacy |-> enablePrivacy]
              existingWalletId == MapGet(walletsByAgent, agentId)
          IN  IF agentId = Unset
              THEN /\ returned' = Response(fn, request, 400, Error("agentId required"))
                   /\ UNCHANGED apiVars
              ELSE IF existingWalletId # Unset
              THEN /\ returned' =
                         Response(fn, request, 200,
                            [walletId |-> wallets[existingWalletId].id,
                             apiKey |-> wallets[existingWalletId].apiKey,
                             privacyEnabled |-> wallets[existingWalletId].privacyEnabled,
                             stealthMetaAddress |->
                                wallets[existingWalletId].stealthMetaAddress,
                             isNew |-> FALSE])
                   /\ UNCHANGED apiVars
              ELSE /\ NextDraw <= MaxWallets
                   /\ LET id == WalletIdDrawn[NextDraw]
                          apiKey == ApiKeyDrawn[NextDraw]
                          wallet == NewWallet(id, agentId, apiKey, FALSE, NoStealthKeys)
                      IN  IF enablePrivacy
                          THEN /\ BagCardinality(pending) < MaxPending
                               /\ pending' = Await(
                                     Suspended(fn, id, apiKey, agentId, Unset, 0, FALSE))
                               /\ returned' = NoCall
                               /\ UNCHANGED <<wallets, walletsByAgent, transactions, apiKeys>>
                          ELSE /\ InsertWallet(wallet)
                               /\ returned' =
                                     Response(fn, request, 200,
                                        [walletId |-> id,
                                         apiKey |-> apiKey,
                                         privacyEnabled |-> wallet.privacyEnabled,
                                         stealthMetaAddress |-> wallet.stealthMetaAddress,
                                         isNew |-> TRUE,
                                         welcomeBonus |-> wallet.points])
                               /\ UNCHANGED pending
    /\ UNCHANGED privacyVars

\* The handler from the settling of generateStealthKeys on: a failure is
\* caught and logged, and the wallet is inserted without keys.
RegisterResumes ==
    /\ Idle
    /\ \E handler \in Awaiting("POST /v1/register") : \E outcome \in GenerateStealthKeysOutcomes :
          LET fn == "POST /v1/register"
              request == [agentId |-> handler.agentId, enablePrivacy |-> TRUE]
              wallet == NewWallet(handler.walletId, handler.agentId, handler.apiKey,
                                  TRUE, outcome.data)
          IN  /\ InsertWallet(wallet)
              /\ pending' = Settled(handler)
              /\ returned' =
                    Response(fn, request, 200,
                       [walletId |-> wallet.id,
                        apiKey |-> wallet.apiKey,
                        privacyEnabled |-> wallet.privacyEnabled,
                        stealthMetaAddress |-> wallet.stealthMetaAddress,
                        isNew |-> TRUE,
                        welcomeBonus |-> wallet.points])
    /\ UNCHANGED privacyVars

(***************************************************************************)
(* POST /v1/wallet/create                                                  *)
(***************************************************************************)
Create ==
    /\ Idle
    /\ \E agentId \in AgentIds \cup {Unset} : \E enablePrivacy \in BOOLEAN :
          LET fn == "POST /v1/wallet/create"
              request == [agentId |-> agentId, enablePrivacy |-> enablePrivacy]
          IN  IF agentId = Unset
              THEN /\ returned' = Response(fn, request, 400, Error("agentId required"))
                   /\ UNCHANGED apiVars
              ELSE IF agentId \in DOMAIN walletsByAgent
              THEN /\ returned' = Response(fn, request, 409,
                                     Error("Wallet already exists for this agent"))
                   /\ UNCHANGED apiVars
              ELSE /\ NextDraw <= MaxWallets
                   /\ LET id == WalletIdDrawn[NextDraw]
                          apiKey == ApiKeyDrawn[NextDraw]
                          wallet == NewWallet(id, agentId, apiKey, FALSE, NoStealthKeys)
                      IN  IF enablePrivacy
                          THEN /\ BagCardinality(pending) < MaxPending
                               /\ pending' = Await(
                                     Suspended(fn, id, apiKey, agentId, Unset, 0, FALSE))
                               /\ returned' = NoCall
                               /\ UNCHANGED <<wallets, walletsByAgent, transactions, apiKeys>>
                          ELSE /\ InsertWallet(wallet)
                               /\ returned' =
                                     Response(fn, request, 200,
                                        [id |-> id,
                                         agentId |-> agentId,
                                         points |-> wallet.points,
                                         privacyEnabled |-> wallet.privacyEnabled,
                                         stealthMetaAddress |-> wallet.stealthMetaAddress,
                                         apiKey |-> apiKey])
                               /\ UNCHANGED pending
    /\ UNCHANGED privacyVars

CreateResumes ==
    /\ Idle
    /\ \E handler \in Awaiting("POST /v1/wallet/create") : \E outcome \in GenerateStealthKeysOutcomes :
          LET fn == "POST /v1/wallet/create"
              request == [agentId |-> handler.agentId, enablePrivacy |-> TRUE]
              wallet == NewWallet(handler.walletId, handler.agentId, handler.apiKey,
                                  TRUE, outcome.data)
          IN  /\ InsertWallet(wallet)
              /\ pending' = Settled(handler)
              /\ returned' =
                    Response(fn, request, 200,
                       [id |-> wallet.id,
                        agentId |-> wallet.agentId,
                        points |-> wallet.points,
                        privacyEnabled |-> wallet.privacyEnabled,
                        stealthMetaAddress |-> wallet.stealthMetaAddress,
                        apiKey |-> wallet.apiKey])
    /\ UNCHANGED privacyVars

(***************************************************************************)
(* POST /v1/wallet/:id/enable-privacy                                      *)
(***************************************************************************)
\* The values of :id in requests: a wallet id, an agent id, neither.
PathIds == DOMAIN wallets \cup AgentIds \cup {"w0"}

\* wallets.get(id) || wallets.get(walletsByAgent.get(id) || ''): the id of
\* the wallet found, Unset when there is none.
WalletNamed(id) ==
    IF id \in DOMAIN wallets THEN id
    ELSE IF MapGet(walletsByAgent, id) \in DOMAIN wallets THEN walletsByAgent[id]
    ELSE Unset

EnablePrivacy ==
    /\ Idle
    /\ \E authorization \in Authorizations : \E id \in PathIds :
          LET fn == "POST /v1/wallet/:id/enable-privacy"
              request == [authorization |-> authorization, id |-> id]
              auth == authMiddleware(authorization)
              walletId == WalletNamed(id)
          IN  IF auth.status = 401
              THEN /\ returned' = Response(fn, request, 401, Error(auth.error))
                   /\ UNCHANGED apiVars
              ELSE IF walletId = Unset
              THEN /\ returned' = Response(fn, request, 404, Error("Wallet not found"))
                   /\ UNCHANGED apiVars
              ELSE IF wallets[walletId].id # auth.walletId
              THEN /\ returned' = Response(fn, request, 403,
                                     Error("Can only modify your own wallet"))
                   /\ UNCHANGED apiVars
              ELSE IF wallets[walletId].privacyEnabled
              THEN /\ returned' =
                         Response(fn, request, 200,
                            [success |-> TRUE,
                             message |-> "Privacy already enabled",
                             stealthMetaAddress |-> wallets[walletId].stealthMetaAddress])
                   /\ UNCHANGED apiVars
              ELSE /\ BagCardinality(pending) < MaxPending
                   /\ pending' = Await(
                         Suspended(fn, walletId, authorization,
                                   wallets[walletId].agentId, Unset, 0, FALSE))
                   /\ returned' = NoCall
                   /\ UNCHANGED <<wallets, walletsByAgent, transactions, apiKeys>>
    /\ UNCHANGED privacyVars

\* The handler from the settling of generateStealthKeys on: `wallet` is the
\* object it looked up before the await.
EnablePrivacyResumes ==
    /\ Idle
    /\ \E handler \in Awaiting("POST /v1/wallet/:id/enable-privacy") : \E outcome \in GenerateStealthKeysOutcomes :
          LET fn == "POST /v1/wallet/:id/enable-privacy"
              request == [authorization |-> handler.apiKey, id |-> handler.walletId]
              wallet == wallets[handler.walletId]
          IN  /\ pending' = Settled(handler)
              /\ IF outcome.ok
                 THEN /\ wallets' =
                            Put(wallets, wallet.id,
                                [wallet EXCEPT
                                   !.privacyEnabled = TRUE,
                                   !.stealthMetaAddress = outcome.data.metaAddress,
                                   !.stealthSpendingKey = outcome.data.spendingPrivateKey,
                                   !.stealthViewingKey = outcome.data.viewingPrivateKey,
                                   !.points = wallet.points + 50])
                      /\ returned' =
                            Response(fn, request, 200,
                               [success |-> TRUE,
                                message |-> "Privacy enabled via Sipher",
                                stealthMetaAddress |-> outcome.data.metaAddress,
                                bonusPoints |-> 50])
                 ELSE /\ wallets' = wallets
                      /\ returned' = Response(fn, request, 500,
                                        Error("Failed to enable privacy"))
              /\ UNCHANGED <<walletsByAgent, transactions, apiKeys>>
    /\ UNCHANGED privacyVars

(***************************************************************************)
(* index.ts: transactions and points                                       *)
(***************************************************************************)
\* A Transaction with the fields the handlers set from the request (id,
\* createdAt, stealthAddress and signature are fresh or external values
\* that nothing reads back).
Transaction(walletId, type, amount, fee, to, toAgentId, fromAgentId, isPrivate) ==
    [walletId |-> walletId, type |-> type, amount |-> amount, fee |-> fee,
     to |-> to, toAgentId |-> toAgentId, fromAgentId |-> fromAgentId,
     isPrivate |-> isPrivate]

\* amount * 0.005.
Fee(amount) == amount \div 200

Min(a, b) == IF a < b THEN a ELSE b

Max(a, b) == IF a > b THEN a ELSE b

\* The points of a public send without the cap of 10.
SendPointsUncapped(amount) == Max(1, amount \div UnitsPerSol)

\* Math.min(10, Math.max(1, Math.floor(amount))).
SendPoints(amount) == Min(10, Max(1, amount \div UnitsPerSol))

\* Math.min(20, Math.max(2, Math.floor(amount * 2))).
PrivateSendPoints(amount) == Min(20, Max(2, (amount * 2) \div UnitsPerSol))

\* The amount field of a request body: a JSON number (0, 0.5 and 12 SOL) or
\* a value of another type.
RequestAmounts ==
    {[type |-> "number", value |-> v] : v \in {0, UnitsPerSol \div 2, 12 * UnitsPerSol}}
      \cup {[type |-> "string", value |-> UnitsPerSol]}

\* typeof amount !== 'number' || amount <= 0.
InvalidAmount(amount) == amount.type # "number" \/ amount.value <= 0

\* The walletId and fromWalletId fields of request bodies.
BodyWalletIds == DOMAIN wallets \cup {"w0"}

\* The number of records in the lists of the wallets of a set.
RECURSIVE Recorded(_)
Recorded(walletIds) ==
    IF walletIds = {} THEN 0
    ELSE LET w == CHOOSE x \in walletIds : TRUE
         IN  Len(transactions[w]) + Recorded(walletIds \ {w})

\* The records the lists will hold once the suspended handlers that push
\* a record have resumed.
Committed ==
    LET pushing == Awaiting("POST /v1/wallet/send")
                     \cup Awaiting("POST /v1/wallet/send-to-agent")
                     \cup Awaiting("POST /v1/wallet/claim-private")
    IN  Recorded(DOMAIN transactions)
          + BagCardinality([handler \in pushing |-> pending[handler]])

\* How `await buildShieldedTransfer(...)`, `await scanPrivatePayments(...)`
\* and `await claimStealthPayment(...)` can settle: sipherRequest throws or
\* returns.
SipherOutcomes == {[ok |-> FALSE], [ok |-> TRUE]}

\* transactions.get(walletId)!.push(tx).
Push(lists, walletId, tx) == Put(lists, walletId, Append(lists[walletId], tx))

\* A send that adds the points and leaves txCount as it was.
SentUncounted(map, walletId, points) ==
    Put(map, walletId, [map[walletId] EXCEPT !.points = @ + points])

\* The outgoing record of a send, with wallet.txCount += 1 and
\* wallet.points += points.
Sent(map, walletId, points) ==
    Put(map, walletId, [map[walletId] EXCEPT !.txCount = @ + 1, !.points = @ + points])

(***************************************************************************)
(* POST /v1/wallet/send                                                    *)
(***************************************************************************)
Send ==
    /\ Idle
    /\ \E authorization \in Authorizations : \E walletId \in BodyWalletIds :
          LET fn == "POST /v1/wallet/send"
              request == [authorization |-> authorization, walletId |-> walletId]
              auth == authMiddleware(authorization)
          IN  IF auth.status = 401
              THEN /\ returned' = Response(fn, request, 401, Error(auth.error))
                   /\ UNCHANGED apiVars
              ELSE IF walletId # auth.walletId
              THEN /\ returned' = Response(fn, request, 403,
                                     Error("Can only send from your own wallet"))
                   /\ UNCHANGED apiVars
              ELSE IF walletId \notin DOMAIN wallets
              THEN /\ returned' = Response(fn, request, 404, Error("Wallet not found"))
                   /\ UNCHANGED apiVars
              ELSE
              \E to \in AgentIds \cup {Unset} : \E amount \in RequestAmounts :
              \E isPrivate \in BOOLEAN :
              LET recipientWalletId == MapGet(walletsByAgent, to) IN
              IF to = Unset \/ InvalidAmount(amount)
              THEN /\ returned' = Response(fn, request, 400,
                                     Error("Invalid to address or amount"))
                   /\ UNCHANGED apiVars
              ELSE IF isPrivate /\ ~wallets[walletId].privacyEnabled
              THEN /\ returned' = Response(fn, request, 400,
                                     Error("Privacy not enabled on this wallet"))
                   /\ UNCHANGED apiVars
              ELSE IF isPrivate
                      /\ ~( /\ recipientWalletId \in DOMAIN wallets
                            /\ wallets[recipientWalletId].privacyEnabled
                            /\ wallets[recipientWalletId].stealthMetaAddress # Unset )
              THEN /\ returned' = Response(fn, request, 400,
                                     Error("Recipient does not have a privacy-enabled ClawWallet"))
                   /\ UNCHANGED apiVars
              ELSE /\ Committed < MaxTransactions
                   /\ IF isPrivate
                      THEN /\ BagCardinality(pending) < MaxTransfersPending
                           /\ pending' = Await(
                                 Suspended(fn, walletId, authorization, to,
                                           recipientWalletId, amount.value, TRUE))
                           /\ returned' = NoCall
                           /\ UNCHANGED <<wallets, walletsByAgent, transactions, apiKeys>>
                      ELSE /\ transactions' =
                                 Push(transactions, walletId,
                                      Transaction(walletId, "send", amount.value,
                                                  Fee(amount.value), to, Unset, Unset, FALSE))
                           /\ wallets' = Sent(wallets, walletId, SendPoints(amount.value))
                           /\ returned' = Response(fn, request, 200,
                                             [success |-> TRUE, amount |-> amount.value,
                                              to |-> to, isPrivate |-> FALSE])
                           /\ UNCHANGED <<walletsByAgent, apiKeys, pending>>
    /\ UNCHANGED privacyVars

\* A send handler that counts the transaction before it knows how
\* buildShieldedTransfer settled.
SendResumesCountsFirst ==
    /\ Idle
    /\ \E handler \in Awaiting("POST /v1/wallet/send") : \E outcome \in SipherOutcomes :
          LET fn == "POST /v1/wallet/send"
              request == [authorization |-> handler.apiKey,
                          walletId |-> handler.walletId]
          IN  /\ pending' = Settled(handler)
              /\ wallets' = Sent(wallets, handler.walletId,
                                 PrivateSendPoints(handler.amount))
              /\ IF outcome.ok
                 THEN /\ transactions' =
                            Push(transactions, handler.walletId,
                                 Transaction(handler.walletId, "private_send",
                                             handler.amount, Fee(handler.amount),
                                             handler.agentId, handler.agentId,
                                             Unset, TRUE))
                      /\ returned' = Response(fn, request, 200,
                                        [success |-> TRUE, amount |-> handler.amount,
                                         to |-> handler.agentId, isPrivate |-> TRUE])
                 ELSE /\ returned' = Response(fn, request, 500,
                                        Error("Failed to build private transfer"))
                      /\ UNCHANGED transactions
              /\ UNCHANGED <<walletsByAgent, apiKeys>>
    /\ UNCHANGED privacyVars

\* The handler from the settling of buildShieldedTransfer on: `wallet` and
\* `recipientWallet` are the objects it looked up before the await.
SendResumes ==
    /\ Idle
    /\ \E handler \in Awaiting("POST /v1/wallet/send") : \E outcome \in SipherOutcomes :
          LET fn == "POST /v1/wallet/send"
              request == [authorization |-> handler.apiKey,
                          walletId |-> handler.walletId]
              recipientWallet == wallets[handler.peer]
          IN  /\ pending' = Settled(handler)
              /\ IF outcome.ok
                 THEN /\ transactions' =
                            Push(transactions, handler.walletId,
                                 Transaction(handler.walletId, "private_send",
                                             handler.amount, Fee(handler.amount),
                                             recipientWallet.agentId,
                                             recipientWallet.agentId, Unset, TRUE))
                      /\ wallets' = Sent(wallets, handler.walletId,
                                         PrivateSendPoints(handler.amount))
                      /\ returned' = Response(fn, request, 200,
                                        [success |-> TRUE, amount |-> handler.amount,
                                         to |-> handler.agentId, isPrivate |-> TRUE])
                 ELSE /\ returned' = Response(fn, request, 500,
                                        Error("Failed to build private transfer"))
                      /\ UNCHANGED <<wallets, transactions>>
              /\ UNCHANGED <<walletsByAgent, apiKeys>>
    /\ UNCHANGED privacyVars

(***************************************************************************)
(* POST /v1/wallet/send-to-agent                                           *)
(***************************************************************************)
SendToAgent ==
    /\ Idle
    /\ \E authorization \in Authorizations : \E fromWalletId \in BodyWalletIds :
          LET fn == "POST /v1/wallet/send-to-agent"
              request == [authorization |-> authorization, walletId |-> fromWalletId]
              auth == authMiddleware(authorization)
          IN  IF auth.status = 401
              THEN /\ returned' = Response(fn, request, 401, Error(auth.error))
                   /\ UNCHANGED apiVars
              ELSE IF fromWalletId # auth.walletId
              THEN /\ returned' = Response(fn, request, 403,
                                     Error("Can only send from your own wallet"))
                   /\ UNCHANGED apiVars
              ELSE IF fromWalletId \notin DOMAIN wallets
              THEN /\ returned' = Response(fn, request, 404,
                                     Error("Source wallet not found"))
                   /\ UNCHANGED apiVars
              ELSE
              \E toAgentId \in AgentIds \cup {"a0"} : \E amount \in RequestAmounts :
              \E isPrivate \in BOOLEAN :
              LET toWalletId == MapGet(walletsByAgent, toAgentId) IN
              IF toWalletId = Unset
              THEN /\ returned' = Response(fn, request, 404,
                                     Error("Recipient agent not found"))
                   /\ UNCHANGED apiVars
              ELSE IF InvalidAmount(amount)
              THEN /\ returned' = Response(fn, request, 400, Error("Invalid amount"))
                   /\ UNCHANGED apiVars
              ELSE IF isPrivate /\ ~wallets[fromWalletId].privacyEnabled
              THEN /\ returned' = Response(fn, request, 400,
                                     Error("Privacy not enabled on sender wallet"))
                   /\ UNCHANGED apiVars
              ELSE IF isPrivate
                      /\ ( \/ ~wallets[toWalletId].privacyEnabled
                           \/ wallets[toWalletId].stealthMetaAddress = Unset )
              THEN /\ returned' = Response(fn, request, 400,
                                     Error("Recipient agent does not have privacy enabled"))
                   /\ UNCHANGED apiVars
              ELSE IF isPrivate
              THEN /\ Committed < MaxTransactions
                   /\ BagCardinality(pending) < MaxTransfersPending
                   /\ pending' = Await(
                         Suspended(fn, fromWalletId, authorization, toAgentId,
                                   toWalletId, amount.value, TRUE))
                   /\ returned' = NoCall
                   /\ UNCHANGED <<wallets, walletsByAgent, transactions, apiKeys>>
              ELSE LET txOut == Transaction(fromWalletId, "agent_transfer", amount.value,
                                            Fee(amount.value), Unset, toAgentId, Unset, FALSE)
                       txIn == Transaction(toWalletId, "receive",
                                           amount.value - Fee(amount.value), 0, Unset,
                                           Unset, wallets[fromWalletId].agentId, FALSE)
                       sent == Sent(wallets, fromWalletId, SendPoints(amount.value))
                   IN  /\ Committed < MaxTransactions
                       /\ transactions' =
                             Push(Push(transactions, fromWalletId, txOut), toWalletId, txIn)
                       /\ wallets' = Put(sent, toWalletId,
                                         [sent[toWalletId] EXCEPT !.points = @ + 5])
                       /\ returned' = Response(fn, request, 200,
                                         [success |-> TRUE, amount |-> amount.value,
                                          toAgentId |-> toAgentId, isPrivate |-> FALSE])
                       /\ UNCHANGED <<walletsByAgent, apiKeys, pending>>
    /\ UNCHANGED privacyVars

SendToAgentResumes ==
    /\ Idle
    /\ \E handler \in Awaiting("POST /v1/wallet/send-to-agent") : \E outcome \in SipherOutcomes :
          LET fn == "POST /v1/wallet/send-to-agent"
              request == [authorization |-> handler.apiKey,
                          walletId |-> handler.walletId]
          IN  /\ pending' = Settled(handler)
              /\ IF outcome.ok
                 THEN /\ transactions' =
                            Push(transactions, handler.walletId,
                                 Transaction(handler.walletId, "private_send",
                                             handler.amount, Fee(handler.amount),
                                             Unset, handler.agentId, Unset, TRUE))
                      /\ wallets' = Sent(wallets, handler.walletId,
                                         PrivateSendPoints(handler.amount))
                      /\ returned' = Response(fn, request, 200,
                                        [success |-> TRUE, amount |-> handler.amount,
                                         toAgentId |-> handler.agentId, isPrivate |-> TRUE])
                 ELSE /\ returned' = Response(fn, request, 500,
                                        Error("Failed to build private transfer"))
                      /\ UNCHANGED <<wallets, transactions>>
              /\ UNCHANGED <<walletsByAgent, apiKeys>>
    /\ UNCHANGED privacyVars

(***************************************************************************)
(* POST /v1/wallet/scan-private                                            *)
(***************************************************************************)
ScanPrivate ==
    /\ Idle
    /\ \E authorization \in Authorizations : \E walletId \in BodyWalletIds :
          LET fn == "POST /v1/wallet/scan-private"
              request == [authorization |-> authorization, walletId |-> walletId]
              auth == authMiddleware(authorization)
          IN  IF auth.status = 401
              THEN /\ returned' = Response(fn, request, 401, Error(auth.error))
                   /\ UNCHANGED apiVars
              ELSE IF walletId # auth.walletId
              THEN /\ returned' = Response(fn, request, 403,
                                     Error("Can only scan your own wallet"))
                   /\ UNCHANGED apiVars
              ELSE IF walletId \notin DOMAIN wallets
              THEN /\ returned' = Response(fn, request, 404, Error("Wallet not found"))
                   /\ UNCHANGED apiVars
              ELSE IF \/ ~wallets[walletId].privacyEnabled
                      \/ wallets[walletId].stealthViewingKey = Unset
                      \/ wallets[walletId].stealthMetaAddress = Unset
              THEN /\ returned' = Response(fn, request, 400,
                                     Error("Privacy not enabled on this wallet"))
                   /\ UNCHANGED apiVars
              ELSE /\ BagCardinality(pending) < MaxTransfersPending
                   /\ pending' = Await(
                         Suspended(fn, walletId, authorization, Unset, Unset, 0, TRUE))
                   /\ returned' = NoCall
                   /\ UNCHANGED <<wallets, walletsByAgent, transactions, apiKeys>>
    /\ UNCHANGED privacyVars

ScanPrivateResumes ==
    /\ Idle
    /\ \E handler \in Awaiting("POST /v1/wallet/scan-private") : \E outcome \in SipherOutcomes :
          LET fn == "POST /v1/wallet/scan-private"
              request == [authorization |-> handler.apiKey, walletId |-> handler.walletId]
          IN  /\ pending' = Settled(handler)
              /\ returned' =
                    IF outcome.ok
                    THEN Response(fn, request, 200, [success |-> TRUE])
                    ELSE Response(fn, request, 500,
                                  Error("Failed to scan for private payments"))
              /\ UNCHANGED <<wallets, walletsByAgent, transactions, apiKeys>>
    /\ UNCHANGED privacyVars

(***************************************************************************)
(* POST /v1/wallet/claim-private                                           *)
(***************************************************************************)
ClaimPrivate ==
    /\ Idle
    /\ \E authorization \in Authorizations : \E walletId \in BodyWalletIds :
          LET fn == "POST /v1/wallet/claim-private"
              request == [authorization |-> authorization, walletId |-> walletId]
              auth == authMiddleware(authorization)
          IN  IF auth.status = 401
              THEN /\ returned' = Response(fn, request, 401, Error(auth.error))
                   /\ UNCHANGED apiVars
              ELSE IF walletId # auth.walletId
              THEN /\ returned' = Response(fn, request, 403,
                                     Error("Can only claim to your own wallet"))
                   /\ UNCHANGED apiVars
              ELSE IF walletId \notin DOMAIN wallets
              THEN /\ returned' = Response(fn, request, 404, Error("Wallet not found"))
                   /\ UNCHANGED apiVars
              ELSE IF \/ ~wallets[walletId].privacyEnabled
                      \/ wallets[walletId].stealthSpendingKey = Unset
                      \/ wallets[walletId].stealthViewingKey = Unset
              THEN /\ returned' = Response(fn, request, 400,
                                     Error("Privacy not enabled on this wallet"))
                   /\ UNCHANGED apiVars
              ELSE /\ Committed < MaxTransactions
                   /\ BagCardinality(pending) < MaxTransfersPending
                   /\ pending' = Await(
                         Suspended(fn, walletId, authorization, Unset, Unset, 0, TRUE))
                   /\ returned' = NoCall
                   /\ UNCHANGED <<wallets, walletsByAgent, transactions, apiKeys>>
    /\ UNCHANGED privacyVars

ClaimPrivateResumes ==
    /\ Idle
    /\ \E handler \in Awaiting("POST /v1/wallet/claim-private") : \E outcome \in SipherOutcomes :
          LET fn == "POST /v1/wallet/claim-private"
              request == [authorization |-> handler.apiKey, walletId |-> handler.walletId]
              wallet == wallets[handler.walletId]
          IN  /\ pending' = Settled(handler)
              /\ IF outcome.ok
                 THEN /\ transactions' =
                            Push(transactions, handler.walletId,
                                 Transaction(handler.walletId, "private_receive", 0, 0,
                                             Unset, Unset, Unset, TRUE))
                      /\ wallets' = Put(wallets, handler.walletId,
                                        [wallet EXCEPT !.points = @ + 10])
                      /\ returned' = Response(fn, request, 200, [success |-> TRUE])
                 ELSE /\ returned' = Response(fn, request, 500,
                                        Error("Failed to claim private payment"))
                      /\ UNCHANGED <<wallets, transactions>>
              /\ UNCHANGED <<walletsByAgent, apiKeys>>
    /\ UNCHANGED privacyVars

Next ==
    \/ GenerateStealthKeyPair
    \/ ParseMetaAddress
    \/ DeriveStealthAddress
    \/ DeriveStealthAddressMalformed
    \/ CheckStealthOwnership
    \/ CheckStealthOwnershipMalformed
    \/ DeriveStealthPrivateKey
    \/ TakeReturned

Spec == Init /\ [][Next]_vars

\* The payment-data functions on caller-supplied inputs.
NextCipher ==
    \/ EncryptPaymentData
    \/ DecryptPaymentData
    \/ TakeReturned

SpecCipher == Init /\ [][NextCipher]_vars

\* The registry under any registrations and scans.
NextRegistry ==
    \/ GenerateStealthKeyPair
    \/ DeriveStealthAddress
    \/ RegisterPrivateTransfer
    \/ ScanForPayments
    \/ TakeReturned

SpecRegistry == Init /\ [][NextRegistry]_vars

\* The end-to-end scenario: generate, derive, encrypt, register, scan.
NextScenario ==
    \/ GenerateStealthKeyPair
    \/ DeriveStealthAddress
    \/ SenderEncrypts
    \/ SenderRegisters
    \/ ScanForPayments
    \/ TakeReturned

SpecScenario == Init /\ [][NextScenario]_vars

\* Every exported function, called over a registry that holds the record
\* of the scenario.
NextFrame ==
    \/ GenerateStealthKeyPair
    \/ DeriveStealthAddress
    \/ SenderEncrypts
    \/ SenderRegisters
    \/ ScanForPayments
    \/ CheckStealthOwnership
    \/ DeriveStealthPrivateKey
    \/ RecipientDecrypts
    \/ TakeReturned

SpecFrame == Init /\ [][NextFrame]_vars

\* The registry of produced records, under registrations in any order,
\* with any timestamps, and scans.
NextTimeline ==
    \/ GenerateStealthKeyPair
    \/ DeriveStealthAddress
    \/ RegisterProducedTransfer
    \/ ScanForPayments
    \/ TakeReturned

SpecTimeline == Init /\ [][NextTimeline]_vars

\* The wallet accounts of the HTTP API: creation, registration and the
\* enabling of privacy, under every interleaving of the handlers.
NextAccounts ==
    \/ Register
    \/ RegisterResumes
    \/ Create
    \/ CreateResumes
    \/ EnablePrivacy
    \/ EnablePrivacyResumes
    \/ TakeReturned

SpecAccounts == Init /\ [][NextAccounts]_vars

\* The handlers of the authenticated routes, under every interleaving, over
\* wallets made by POST /v1/wallet/create.
NextTransfers ==
    \/ Create
    \/ CreateResumes
    \/ EnablePrivacy
    \/ EnablePrivacyResumes
    \/ Send
    \/ SendResumes
    \/ SendToAgent
    \/ SendToAgentResumes
    \/ ScanPrivate
    \/ ScanPrivateResumes
    \/ ClaimPrivate
    \/ ClaimPrivateResumes
    \/ TakeReturned

SpecTransfers == Init /\ [][NextTransfers]_vars

(***************************************************************************)
(* Claims about the stealth-address functions (checked under Spec)         *)
(***************************************************************************)
\* The derivations made against the meta-address of identity i.
DerivedFor(i) == {d \in Derived : d.recipientMetaAddress = i.metaAddress}

\* The encoded public point of a private scalar: scalar * G.
PublicPointOf(scalar) == bytesToHex(scalar % curveOrder)

\* C1: for every generated identity and every stealth address derived
\* against its meta-address, the scalar deriveStealthPrivateKey returns,
\* multiplied by the base point and encoded, equals the stealth address.
C1_SpendScalarMatchesAddress ==
    \A i \in identities : \A d \in DerivedFor(i) :
       LET scalar == deriveStealthPrivateKey(d.result.ephemeralPublicKey,
                        i.viewingPrivateKey, i.spendingPrivateKey)
       IN  scalar # Throw /\ PublicPointOf(scalar) = d.result.address

\* C1's case: deriveStealthPrivateKey has been called by the owner of a
\* derived address, which checkStealthOwnership accepts.
C1_OwnerDerivedKey ==
    /\ returned.fn = "deriveStealthPrivateKey"
    /\ \E i \in identities : \E d \in DerivedFor(i) :
          /\ returned.ephemeralPublicKey = d.result.ephemeralPublicKey
          /\ returned.viewingPrivateKey = i.viewingPrivateKey
          /\ returned.spendingPrivateKey = i.spendingPrivateKey
          /\ checkStealthOwnership(d.result.address, d.result.ephemeralPublicKey,
                                   i.viewingPrivateKey, i.spendingPublicKey)

\* C2: for every generated identity and every output of deriveStealthAddress
\* on that identity's meta-address, checkStealthOwnership called with the
\* identity's viewing private key and spending public key returns true.
C2_OwnershipCompleteness ==
    /\ \A i \in identities : \A d \in DerivedFor(i) :
          checkStealthOwnership(d.result.address, d.result.ephemeralPublicKey,
                                i.viewingPrivateKey, i.spendingPublicKey)
    /\ returned.fn = "checkStealthOwnership" =>
          \A i \in identities : \A d \in DerivedFor(i) :
             ( /\ returned.stealthAddress = d.result.address
               /\ returned.ephemeralPublicKey = d.result.ephemeralPublicKey
               /\ returned.viewingPrivateKey = i.viewingPrivateKey
               /\ returned.spendingPublicKey = i.spendingPublicKey )
             => returned.value = TRUE

\* C2's case: the recipient has checked an address derived for it.
C2_RecipientChecked ==
    /\ returned.fn = "checkStealthOwnership"
    /\ \E i \in identities : \E d \in DerivedFor(i) :
          /\ returned.stealthAddress = d.result.address
          /\ returned.ephemeralPublicKey = d.result.ephemeralPublicKey
          /\ returned.viewingPrivateKey = i.viewingPrivateKey
          /\ returned.spendingPublicKey = i.spendingPublicKey

\* C4: no two results of deriveStealthAddress share an ephemeralPublicKey,
\* and the stealth addresses derived for one meta-address are pairwise
\* distinct.
C4_Freshness ==
    \A d1 \in Derived : \A d2 \in Derived \ {d1} :
       /\ d1.result.ephemeralPublicKey # d2.result.ephemeralPublicKey
       /\ d1.recipientMetaAddress = d2.recipientMetaAddress
             => d1.result.address # d2.result.address

\* C4's case: two addresses have been derived for one meta-address.
C4_TwoForOneRecipient ==
    \E d1 \in Derived : \E d2 \in Derived \ {d1} :
       d1.recipientMetaAddress = d2.recipientMetaAddress

\* C13: checkStealthOwnership never throws; when any of its four arguments
\* is a string that does not decode, it returns false.
C13_OwnershipNeverThrows ==
    returned.fn = "checkStealthOwnership" =>
       /\ ~returned.threw
       /\ returned.value \in BOOLEAN
       /\ returned.value = checkStealthOwnershipCall(returned.stealthAddress,
                              returned.ephemeralPublicKey, returned.viewingPrivateKey,
                              returned.spendingPublicKey).value
       /\ ( \/ returned.stealthAddress \in Undecodable
            \/ returned.ephemeralPublicKey \in Undecodable
            \/ returned.viewingPrivateKey \in Undecodable
            \/ returned.spendingPublicKey \in Undecodable )
          => returned.value = FALSE

\* C13's case: checkStealthOwnership has been called with an ephemeral
\* public key that is not hex and a spending public key that is not a
\* point.
C13_UndecodableChecked ==
    /\ returned.fn = "checkStealthOwnership"
    /\ returned.ephemeralPublicKey = BadHex
    /\ returned.spendingPublicKey = OffCurve

\* The number of characters of a meta-address.
Length(metaAddress) == 64 * Len(metaAddress)

\* C17: parseMetaAddress and deriveStealthAddress reject a meta-address
\* whose length is not 128 with the length error; deriveStealthAddress does
\* so before it draws an ephemeral key and returns no address.
C17_LengthCheckedFirst ==
    /\ (returned.fn = "parseMetaAddress" /\ Length(returned.metaAddress) # 128) =>
          /\ ~returned.value.ok
          /\ returned.value.error = "Invalid meta address length"
    /\ (returned.fn = "deriveStealthAddress"
          /\ Length(returned.recipientMetaAddress) # 128) =>
          /\ ~returned.result.ok
          /\ returned.result.error = "Invalid meta address length"
          /\ returned.draws = 0
          /\ returned.result.address = Throw

\* C17's case: deriveStealthAddress has been called with a string of 64
\* characters.
C17_ShortMetaAddressDerived ==
    /\ returned.fn = "deriveStealthAddress"
    /\ Length(returned.recipientMetaAddress) = 64

\* C18: parseMetaAddress fails whenever a half of a meta-address of 128
\* characters does not decode to a curve point.
C18_PointsValidatedOnParse ==
    ( /\ returned.fn = "parseMetaAddress"
      /\ Length(returned.metaAddress) = 128
      /\ \/ fromHex(returned.metaAddress[1]) = Throw
         \/ fromHex(returned.metaAddress[2]) = Throw )
    => ~returned.value.ok

\* C18's case: parseMetaAddress has been called with 128 hex characters
\* whose first half is not a point.
C18_InvalidPointParsed ==
    /\ returned.fn = "parseMetaAddress"
    /\ returned.metaAddress = <<OffCurve, 1>>

\* C24: for every identity returned by generateStealthKeyPair, metaAddress
\* is spendingPublicKey followed by viewingPublicKey, of exactly 128 hex
\* characters, and parseMetaAddress(metaAddress) returns exactly those two
\* public keys in that order.
C24_MetaAddressRoundTrip ==
    \A i \in identities :
       /\ i.metaAddress = <<i.spendingPublicKey, i.viewingPublicKey>>
       /\ Length(i.metaAddress) = 128
       /\ ( /\ returned.fn = "parseMetaAddress"
            /\ returned.metaAddress = i.metaAddress )
          => /\ returned.value.ok
             /\ bytesToHex(returned.value.spendingPublicKey) = i.spendingPublicKey
             /\ bytesToHex(returned.value.viewingPublicKey) = i.viewingPublicKey

\* C24's case: parseMetaAddress has been called with the meta-address of a
\* generated key pair.
C24_OwnMetaAddressParsed ==
    /\ returned.fn = "parseMetaAddress"
    /\ \E i \in identities :
          /\ returned.metaAddress = i.metaAddress
          /\ i.spendingPublicKey # i.viewingPublicKey

\* C22: the tweak that deriveStealthAddress and checkStealthOwnership
\* multiply the base point by is the hash value reduced modulo the curve
\* order, so it is always below the curve order, and
\* deriveStealthPrivateKey returns (spendingPrivate + tweak) mod curveOrder,
\* a value in [0, curveOrder).
C22_ScalarReduction ==
    /\ ( /\ returned.fn = "deriveStealthAddress"
         /\ parseMetaAddress(returned.recipientMetaAddress).ok )
       => LET tweak == TweakScalar(returned.ephemeralPrivateKey,
                          parseMetaAddress(returned.recipientMetaAddress).viewingPublicKey)
          IN  tweak # Throw => tweak < curveOrder
    /\ returned.fn = "checkStealthOwnership"
       => LET tweak == TweakScalar(hexToBytes(returned.viewingPrivateKey),
                                   hexToBytes(returned.ephemeralPublicKey))
          IN  tweak # Throw => tweak < curveOrder
    /\ ( /\ returned.fn = "deriveStealthPrivateKey"
         /\ returned.value # Throw )
       => LET tweak == TweakScalar(hexToBytes(returned.viewingPrivateKey),
                                   hexToBytes(returned.ephemeralPublicKey))
          IN  /\ returned.value \in 0 .. (curveOrder - 1)
              /\ returned.value = (returned.spendingPrivateKey + tweak) % curveOrder

\* Supporting C22: the part about deriveStealthPrivateKey alone.
SpendScalarReduced ==
    ( /\ returned.fn = "deriveStealthPrivateKey"
      /\ returned.value # Throw )
    => LET tweak == TweakScalar(hexToBytes(returned.viewingPrivateKey),
                                hexToBytes(returned.ephemeralPublicKey))
       IN  /\ returned.value \in 0 .. (curveOrder - 1)
           /\ returned.value = (returned.spendingPrivateKey + tweak) % curveOrder

\* C22's case: deriveStealthAddress has handed BASE.multiply a hash value
\* at or above the curve order.
C22_TweakAtOrAboveOrder ==
    /\ returned.fn = "deriveStealthAddress"
    /\ returned.result.error = "scalar"
    /\ TweakScalar(returned.ephemeralPrivateKey,
                   parseMetaAddress(returned.recipientMetaAddress).viewingPublicKey)
          >= curveOrder

(***************************************************************************)
(* Claims about the payment data (checked under SpecCipher)                *)
(***************************************************************************)
Decrypted == returned.fn = "decryptPaymentData"

StoredFields ==
    /\ returned.encryptedAmount = payload.result.encryptedAmount
    /\ returned.encryptedMemo = payload.result.encryptedMemo

\* C5: decryptPaymentData applied to the output of encryptPaymentData, with
\* ephemeralPublicKey = e*Base and the matching viewing private key,
\* returns exactly (amount, memo), for every amount and every memo value,
\* the empty and the absent memo included.
C5_PayloadRoundTrip ==
    ( /\ Decrypted
      /\ StoredFields
      /\ RightKeys(returned.ephemeralPublicKey, returned.viewingPrivateKey) )
    => /\ returned.value.ok
       /\ returned.value.amount = payload.amount
       /\ returned.value.memo = payload.memo

\* C5's case: the output of an encryption with the empty memo has been
\* decrypted with the right keys.
C5_EmptyMemoDecrypted ==
    /\ Decrypted
    /\ StoredFields
    /\ RightKeys(returned.ephemeralPublicKey, returned.viewingPrivateKey)
    /\ payload.memo = Some(<<>>)

\* C6: if any part (nonce or ciphertext) of a stored
\* encryptedAmount or encryptedMemo is altered after encryption,
\* decryptPaymentData fails with an authentication error and returns no
\* plaintext.
C6_AnyAlterationFails ==
    ( /\ Decrypted
      /\ RightKeys(returned.ephemeralPublicKey, returned.viewingPrivateKey)
      /\ ~StoredFields )
    => ~returned.value.ok /\ returned.value.error = "auth"

\* Supporting C6: if a stored encryptedAmount or encryptedMemo is altered
\* into anything other than a whole field that encryptPaymentData sealed
\* under the same key, decryptPaymentData fails with an authentication
\* error and returns no plaintext.
C6_TamperDetected ==
    ( /\ Decrypted
      /\ RightKeys(returned.ephemeralPublicKey, returned.viewingPrivateKey)
      /\ \/ returned.encryptedAmount \notin SealedFields
         \/ /\ returned.encryptedMemo.present
            /\ returned.encryptedMemo \notin SealedFields )
    => /\ ~returned.value.ok
       /\ returned.value.error = "auth"
       /\ returned.value.amount = NaN
       /\ returned.value.memo = Undefined

\* C6's case: a field whose nonce or ciphertext was changed has been given
\* to decryptPaymentData with the right keys.
C6_AlteredFieldDecrypted ==
    /\ Decrypted
    /\ RightKeys(returned.ephemeralPublicKey, returned.viewingPrivateKey)
    /\ returned.encryptedMemo.present
    /\ returned.encryptedAmount = payload.result.encryptedAmount
    /\ returned.encryptedMemo \notin SealedFields
    /\ returned.encryptedMemo.nonce = payload.result.encryptedMemo.nonce

\* C7: decryptPaymentData on a stored payload fails with an authentication
\* error when the viewing private key is not the one of the recipient the
\* payload was encrypted for, and when the ephemeral public key is not the
\* one used to encrypt.
C7_WrongKeyFails ==
    ( /\ Decrypted
      /\ StoredFields
      /\ LET rightEphemeral ==
                returned.ephemeralPublicKey =
                   bytesToHex(getPublicKey(payload.ephemeralPrivateKey))
             rightViewing ==
                getPublicKey(hexToBytes(returned.viewingPrivateKey)) =
                   payload.recipientViewingPublicKey
         IN  (rightEphemeral /\ ~rightViewing) \/ (~rightEphemeral /\ rightViewing) )
    => /\ ~returned.value.ok
       /\ returned.value.error = "auth"

\* C7's case: a stored payload has been decrypted with another viewing
\* private key and the ephemeral public key of the encryption.
C7_OtherViewingKeyUsed ==
    /\ Decrypted
    /\ StoredFields
    /\ returned.ephemeralPublicKey = bytesToHex(getPublicKey(payload.ephemeralPrivateKey))
    /\ getPublicKey(hexToBytes(returned.viewingPrivateKey)) # payload.recipientViewingPublicKey

\* The nonces in front of the fields of an encryptPaymentData result.
FieldNonces(result) ==
    {f.nonce : f \in {g \in {result.encryptedAmount, result.encryptedMemo} : g.present}}

\* C20: every encryptPaymentData call that returns puts in front of each
\* field a nonce that no earlier call has used, and, when there is a memo,
\* two different nonces in front of encryptedAmount and encryptedMemo.
C20_NonceFreshPerField ==
    [][(payload' # payload /\ payload'.result.ok) =>
          /\ FieldNonces(payload'.result) \cap drawnNonces = {}
          /\ FieldNonces(payload'.result) \subseteq drawnNonces'
          /\ payload'.result.encryptedMemo.present =>
                payload'.result.encryptedAmount.nonce
                   # payload'.result.encryptedMemo.nonce]_vars

\* C20's case: encryptPaymentData has returned an encrypted memo beside
\* the encrypted amount.
C20_MemoEncrypted ==
    /\ payload.called /\ payload.result.ok
    /\ payload.result.encryptedMemo.present

\* A field whose ciphertext bytes were corrupted after encryption.
Corrupted(field) == field.present /\ field.ciphertext.forged

\* C21: when decryptPaymentData is given a valid encryptedAmount and a
\* corrupted encryptedMemo, the caller still recovers the valid amount, and
\* when it is given a corrupted encryptedAmount and a valid encryptedMemo,
\* the caller still recovers the valid memo.
C21_FieldFailuresIsolated ==
    ( /\ Decrypted
      /\ RightKeys(returned.ephemeralPublicKey, returned.viewingPrivateKey) )
    => /\ ( /\ returned.encryptedAmount = payload.result.encryptedAmount
            /\ Corrupted(returned.encryptedMemo) )
          => returned.value.amount = payload.amount
       /\ ( /\ Corrupted(returned.encryptedAmount)
            /\ payload.result.encryptedMemo.present
            /\ returned.encryptedMemo = payload.result.encryptedMemo )
          => returned.value.memo = payload.memo

\* C21's case: the stored encryptedAmount has been decrypted with the right
\* keys beside an encryptedMemo whose ciphertext bytes were corrupted.
C21_CorruptedMemoBesideValidAmount ==
    /\ Decrypted
    /\ RightKeys(returned.ephemeralPublicKey, returned.viewingPrivateKey)
    /\ returned.encryptedAmount = payload.result.encryptedAmount
    /\ Corrupted(returned.encryptedMemo)
    /\ returned.encryptedMemo.ciphertext.plaintext = payload.memo.text

(***************************************************************************)
(* Claims about the registry (checked under SpecScenario, SpecRegistry)    *)
(***************************************************************************)
Scanned == returned.fn = "scanForPayments"

\* The generated key pairs whose keys the returned scan was called with.
Scanners ==
    {i \in identities : /\ returned.viewingPrivateKey = i.viewingPrivateKey
                        /\ returned.spendingPublicKey = i.spendingPublicKey}

\* The positions of the registry.
Registered == 1 .. Len(privateTransfers)

InFound(transfer) ==
    \E k \in 1 .. Len(returned.value.found) : returned.value.found[k] = transfer

\* transfer carries what deriveStealthAddress returned in the call d.
ProducedBy(transfer, d) ==
    /\ transfer.stealthAddress = d.result.address
    /\ transfer.ephemeralPublicKey = d.result.ephemeralPublicKey
    /\ transfer.viewTag = d.result.viewTag

PassesBound(transfer, afterTimestamp) ==
    afterTimestamp.present => transfer.timestamp >= afterTimestamp.value

\* The scenario has run up to the scan: the one registered record was
\* derived against the meta-address of the scanning recipient R and its
\* amount was encrypted under the ephemeral key of that derivation.
ScenarioScanned(R) ==
    /\ Scanned
    /\ R \in Scanners
    /\ returned.afterTimestamp = NoTimestamp
    /\ Len(privateTransfers) = 1
    /\ payload.called
    /\ privateTransfers[1].encryptedAmount = payload.result.encryptedAmount
    /\ \E d \in DerivedFor(R) :
          /\ ProducedBy(privateTransfers[1], d)
          /\ d.ephemeralPrivateKey = payload.ephemeralPrivateKey

\* C8: after R is generated, a sender derives a stealth address for
\* R.metaAddress, encrypts an amount under the same ephemeral key and
\* registers the record in the empty registry, the scan with R's keys
\* returns exactly that record, decryptPaymentData on it yields the amount,
\* and deriveStealthPrivateKey yields a scalar whose public point is the
\* record's stealth address.
C8_EndToEnd ==
    \A R \in identities :
       ScenarioScanned(R) =>
          LET record == privateTransfers[1]
              decrypted == decryptPaymentData(record.encryptedAmount, record.encryptedMemo,
                              record.ephemeralPublicKey, R.viewingPrivateKey)
              scalar == deriveStealthPrivateKey(record.ephemeralPublicKey,
                           R.viewingPrivateKey, R.spendingPrivateKey)
          IN  /\ returned.value.ok
              /\ returned.value.found = <<record>>
              /\ decrypted.ok
              /\ decrypted.amount = payload.amount
              /\ scalar # Throw
              /\ PublicPointOf(scalar) = record.stealthAddress

\* C8's case: the recipient of the scenario has scanned.
C8_RecipientScanned == \E R \in identities : ScenarioScanned(R)

\* C9: every record scanForPayments returns is a registered record that
\* satisfies checkStealthOwnership with the keys of the scan, so a record
\* of another owner whose view tag matches is not returned.
C9_ScanSoundness ==
    (Scanned /\ returned.value.ok) =>
       \A k \in 1 .. Len(returned.value.found) :
          LET transfer == returned.value.found[k]
          IN  /\ \E r \in Registered : privateTransfers[r] = transfer
              /\ checkStealthOwnership(transfer.stealthAddress,
                                       transfer.ephemeralPublicKey,
                                       returned.viewingPrivateKey,
                                       returned.spendingPublicKey)

\* C9's case: a scan has returned over a registry that holds a record
\* derived for another key pair whose view tag matches the one the scanner
\* computes, and the scan has reached that record.
C9_ForeignTagMatched ==
    /\ Scanned /\ returned.value.ok
    /\ \E i \in Scanners : \E r \in Registered : \E d \in Derived \ DerivedFor(i) :
          LET transfer == privateTransfers[r]
          IN  /\ ProducedBy([transfer EXCEPT !.viewTag = d.result.viewTag], d)
              /\ PassesBound(transfer, returned.afterTimestamp)
              /\ transfer.viewTag =
                    FirstByte(sha256(getSharedSecret(hexToBytes(i.viewingPrivateKey),
                                        hexToBytes(transfer.ephemeralPublicKey)), ""))
              /\ ~checkStealthOwnership(transfer.stealthAddress,
                                        transfer.ephemeralPublicKey,
                                        i.viewingPrivateKey, i.spendingPublicKey)

\* C10: every registered record that deriveStealthAddress produced against
\* the meta-address of the scanning recipient, and that passes the
\* timestamp bound, is in the result of the scan.
C10_ScanCompleteness ==
    Scanned =>
       \A i \in Scanners : \A r \in Registered :
          ( /\ \E d \in DerivedFor(i) : ProducedBy(privateTransfers[r], d)
            /\ PassesBound(privateTransfers[r], returned.afterTimestamp) )
          => returned.value.ok /\ InFound(privateTransfers[r])

\* C10's case: a scan has returned over a registry that holds a record
\* produced for the scanning recipient and a record whose ephemeral public
\* key is not hex.
C10_OwnRecordBesideMalformed ==
    /\ Scanned
    /\ \E i \in Scanners : \E r \in Registered : \E d \in DerivedFor(i) :
          ProducedBy(privateTransfers[r], d)
    /\ \E r \in Registered : privateTransfers[r].ephemeralPublicKey = BadHex

\* The scan was given a bound that the code's truthiness test takes as one.
BoundGiven == returned.afterTimestamp.present /\ returned.afterTimestamp.value # 0

Malformed(transfer) ==
    \/ fromHex(transfer.ephemeralPublicKey) = Throw
    \/ fromHex(transfer.stealthAddress) = Throw

\* C12: over a registry that holds a record whose ephemeralPublicKey or
\* stealthAddress does not decode, scanForPayments does not throw, does not
\* return that record, and returns every other record produced for the
\* scanning recipient that passes the bound.
C12_ScanToleratesMalformed ==
    Scanned =>
       /\ returned.value.ok
       /\ \A k \in 1 .. Len(returned.value.found) : ~Malformed(returned.value.found[k])
       /\ \A i \in Scanners : \A r \in Registered :
             ( /\ \E d \in DerivedFor(i) : ProducedBy(privateTransfers[r], d)
               /\ PassesBound(privateTransfers[r], returned.afterTimestamp) )
             => InFound(privateTransfers[r])

\* C12's case: a scan without bound has returned or thrown over a registry
\* that holds a record whose ephemeral public key is not a point.
C12_MalformedRecordScanned ==
    /\ Scanned
    /\ returned.afterTimestamp = NoTimestamp
    /\ \E r \in Registered : privateTransfers[r].ephemeralPublicKey = OffCurve

\* Supporting C12: a record whose stealth address does not decode, the
\* other fields being well formed, does not make the scan throw.
ScanToleratesUndecodableAddress ==
    ( /\ Scanned
      /\ \A r \in Registered :
            fromHex(privateTransfers[r].ephemeralPublicKey) # Throw )
    => returned.value.ok

Registering == returned.fn = "registerPrivateTransfer"

\* C14: the registry holds at most one record per id, a scan never returns
\* two records with the same id, and registering again a record that is
\* already registered leaves the registry and the result of the scan
\* unchanged.
C14_IdempotentOnId ==
    /\ \A r1 \in Registered : \A r2 \in Registered :
          privateTransfers[r1].id = privateTransfers[r2].id => r1 = r2
    /\ \A r \in Registered :
          MapSet(privateTransfers, privateTransfers[r]) = privateTransfers
    /\ (Scanned /\ returned.value.ok) =>
          \A k1 \in 1 .. Len(returned.value.found) :
          \A k2 \in 1 .. Len(returned.value.found) :
             returned.value.found[k1].id = returned.value.found[k2].id => k1 = k2
    /\ Scanned =>
          \A r \in Registered :
             scanForPayments(MapSet(privateTransfers, privateTransfers[r]),
                             returned.viewingPrivateKey, returned.spendingPublicKey,
                             returned.afterTimestamp) = returned.value

\* C14's case: registerPrivateTransfer has been called with the id of the
\* first of two registered records (a new id would have gone last).
C14_IdRegisteredAgain ==
    /\ Registering
    /\ Len(privateTransfers) = 2
    /\ privateTransfers[1] = returned.transfer

\* C15: a registered record is never deleted and never changed: after
\* every step the registry still holds, under the same id, a record with
\* the same fields.
C15_RecordsImmutable ==
    [][\A r \in Registered :
          \E q \in 1 .. Len(privateTransfers') :
             privateTransfers'[q] = privateTransfers[r]]_vars

\* C15's case: registerPrivateTransfer has been called with the id of the
\* first of two registered records, whose timestamps differ.
C15_IdOverwritten ==
    /\ Registering
    /\ Len(privateTransfers) = 2
    /\ privateTransfers[1] = returned.transfer
    /\ privateTransfers[1].timestamp # privateTransfers[2].timestamp

\* Supporting C15: no step removes an id from the registry or moves it.
IdsNeverDeleted ==
    [][/\ Len(privateTransfers') >= Len(privateTransfers)
       /\ \A r \in Registered : privateTransfers'[r].id = privateTransfers[r].id]_vars

\* The owned-record filter of a scan with the given keys and bound.
OwnedBy(transfer, viewingPrivateKey, spendingPublicKey, afterTimestamp) ==
    /\ ~(afterTimestamp.present /\ afterTimestamp.value # 0)
          \/ transfer.timestamp >= afterTimestamp.value
    /\ transfer.viewTag =
          FirstByte(sha256(getSharedSecret(hexToBytes(viewingPrivateKey),
                              hexToBytes(transfer.ephemeralPublicKey)), ""))
    /\ checkStealthOwnership(transfer.stealthAddress, transfer.ephemeralPublicKey,
                             viewingPrivateKey, spendingPublicKey)

\* C16: under every interleaving of registerPrivateTransfer and
\* scanForPayments calls, the result of a scan is the owned-record filter
\* applied to the registry as it is at one point in time (the registry of
\* the state in which the scan returns, which no register call has changed
\* since the scan began), and no record appears twice in it.
C16_ScanSnapshot ==
    (Scanned /\ returned.value.ok) =>
       /\ returned.value.found =
             SelectSeq(privateTransfers,
                       LAMBDA t : OwnedBy(t, returned.viewingPrivateKey,
                                          returned.spendingPublicKey,
                                          returned.afterTimestamp))
       /\ \A k1 \in 1 .. Len(returned.value.found) :
          \A k2 \in 1 .. Len(returned.value.found) :
             returned.value.found[k1] = returned.value.found[k2] => k1 = k2

\* C16's case: a scan has returned one of two registered records.
C16_ScanBetweenRegistrations ==
    /\ Scanned /\ returned.value.ok
    /\ Len(privateTransfers) = 2
    /\ Len(returned.value.found) = 1

\* C19: a step changes the registry only if it is a call of
\* registerPrivateTransfer; the calls of deriveStealthAddress,
\* checkStealthOwnership, deriveStealthPrivateKey, encryptPaymentData,
\* decryptPaymentData and scanForPayments, whether they return or throw,
\* leave it as it was.
C19_OnlyRegisterChangesRegistry ==
    [][privateTransfers' # privateTransfers
          => returned'.fn = "registerPrivateTransfer"]_vars

\* C19's case: decryptPaymentData has thrown over a registry that holds a
\* record.
C19_DecryptFailedOverRegistry ==
    /\ returned.fn = "decryptPaymentData"
    /\ ~returned.value.ok
    /\ Len(privateTransfers) = 1

\* Supporting C10: the records produced for the scanning recipient are all
\* in the result whenever the scan returns.
ScanCompleteWhenItReturns ==
    (Scanned /\ returned.value.ok) =>
       \A i \in Scanners : \A r \in Registered :
          ( /\ \E d \in DerivedFor(i) : ProducedBy(privateTransfers[r], d)
            /\ PassesBound(privateTransfers[r], returned.afterTimestamp) )
          => InFound(privateTransfers[r])

\* Supporting C8: everything the scenario promises except the spend scalar.
ScenarioUpToSpendScalar ==
    \A R \in identities :
       ScenarioScanned(R) =>
          LET record == privateTransfers[1]
              decrypted == decryptPaymentData(record.encryptedAmount, record.encryptedMemo,
                              record.ephemeralPublicKey, R.viewingPrivateKey)
          IN  /\ returned.value.ok
              /\ returned.value.found = <<record>>
              /\ decrypted.ok
              /\ decrypted.amount = payload.amount

(***************************************************************************)
(* Claims about timestamps and order (checked under SpecTimeline)          *)
(***************************************************************************)
\* C23: a sinceTimestamp of zero means no filter: for every registry
\* content, records with negative timestamps included,
\* scanForPayments(v, s, 0) returns the same list as scanForPayments(v, s)
\* with the bound absent.
C23_ZeroBoundIsNoFilter ==
    ( /\ Scanned
      /\ returned.afterTimestamp = Since(0) )
    => returned.value = scanForPayments(privateTransfers, returned.viewingPrivateKey,
                                        returned.spendingPublicKey, NoTimestamp)

\* C23's case: a scan with the bound zero has returned a record whose
\* timestamp is negative.
C23_NegativeTimestampScanned ==
    /\ Scanned
    /\ returned.afterTimestamp = Since(0)
    /\ returned.value.ok
    /\ \E k \in 1 .. Len(returned.value.found) :
          returned.value.found[k].timestamp < 0

\* The ids of a registry, in iteration order.
Ids(map) == [k \in 1 .. Len(map) |-> map[k].id]

\* The records of result are the records of map that are in it, in the
\* order map holds them.
InOrderOf(result, map) ==
    result.found =
       SelectSeq(map, LAMBDA t : \E k \in 1 .. Len(result.found) : result.found[k] = t)

\* C25: scanForPayments returns the matching records in registry insertion
\* order, the order in which their ids were first registered: every step
\* that changes the registry is a registration that leaves the order of
\* the ids as it was when the id is there already and puts a new id last,
\* and every scan that returns lists its records in the order of the
\* registry.
C25_ScanInInsertionOrder ==
    [][/\ privateTransfers' # privateTransfers =>
             /\ returned'.fn = "registerPrivateTransfer"
             /\ Ids(privateTransfers') =
                   IF \E r \in Registered :
                         privateTransfers[r].id = returned'.transfer.id
                   THEN Ids(privateTransfers)
                   ELSE Append(Ids(privateTransfers), returned'.transfer.id)
       /\ (returned'.fn = "scanForPayments" /\ returned'.value.ok) =>
             InOrderOf(returned'.value, privateTransfers')]_vars

\* C25's case: the first of two registered ids has been registered again,
\* and both records are found by a scan with the keys of one key pair.
C25_FirstIdRegisteredAgain ==
    /\ Registering
    /\ Len(privateTransfers) = 2
    /\ privateTransfers[1].id = returned.transfer.id
    /\ \E i \in identities :
          Len(scanForPayments(privateTransfers, i.viewingPrivateKey,
                              i.spendingPublicKey, NoTimestamp).found) = 2

(***************************************************************************)
(* Claims about the wallet accounts (checked under SpecAccounts)           *)
(***************************************************************************)
\* The wallets of an agent.
WalletsOf(agentId) == {w \in DOMAIN wallets : wallets[w].agentId = agentId}

\* C26: POST /v1/wallet/create for an agentId that already has a wallet
\* answers 409 and creates nothing; and after any interleaving of
\* concurrent /v1/wallet/create and /v1/register requests there are never
\* two wallets with the same agentId, and walletsByAgent[agentId] names the
\* only wallet of that agent.
C26_OneWalletPerAgent ==
    [][/\ ( /\ returned'.fn = "POST /v1/wallet/create"
            /\ pending' = pending
            /\ returned'.request.agentId \in DOMAIN walletsByAgent )
          => /\ returned'.status = 409
             /\ UNCHANGED apiVars
       /\ \A w \in DOMAIN wallets' :
             /\ \A x \in DOMAIN wallets' :
                   wallets'[x].agentId = wallets'[w].agentId => x = w
             /\ MapGet(walletsByAgent', wallets'[w].agentId) = w]_vars

\* Supporting C26: a create request that arrives when its agentId has a
\* wallet is answered 409 and changes nothing.
ConflictAnswered ==
    [][( /\ returned'.fn = "POST /v1/wallet/create"
         /\ pending' = pending
         /\ returned'.request.agentId \in DOMAIN walletsByAgent )
       => /\ returned'.status = 409
          /\ UNCHANGED apiVars]_vars

\* C26's case: two handlers that were suspended together have both
\* inserted a wallet for the same agentId.
C26_TwoWalletsOfOneAgent ==
    \E agentId \in AgentIds :
       /\ Cardinality(WalletsOf(agentId)) = 2
       /\ returned.fn \in {"POST /v1/wallet/create", "POST /v1/register"}
       /\ returned.status = 200

\* C27: POST /v1/register for an agentId that already has a wallet returns
\* that wallet's existing walletId and apiKey with isNew false, and leaves
\* wallets, walletsByAgent, apiKeys, transactions and the wallet's points
\* unchanged, however many times it is repeated.
C27_RegisterIdempotent ==
    [][( /\ returned'.fn = "POST /v1/register"
         /\ pending' = pending
         /\ returned'.request.agentId \in DOMAIN walletsByAgent )
       => LET wallet == wallets[walletsByAgent[returned'.request.agentId]]
          IN  /\ returned'.status = 200
              /\ returned'.body.isNew = FALSE
              /\ returned'.body.walletId = wallet.id
              /\ returned'.body.apiKey = wallet.apiKey
              /\ wallet.agentId = returned'.request.agentId
              /\ MapGet(apiKeys, returned'.body.apiKey) = wallet.id
              /\ UNCHANGED <<wallets, walletsByAgent, apiKeys, transactions>>]_vars

\* C27's case: a register request for an agent whose wallet has earned the
\* privacy bonus has been answered with isNew false.
C27_ExistingAgentRegistered ==
    /\ returned.fn = "POST /v1/register"
    /\ returned.status = 200
    /\ returned.body.isNew = FALSE
    /\ returned.request.agentId \in DOMAIN walletsByAgent
    /\ wallets[walletsByAgent[returned.request.agentId]].points = 150

\* The wallets a step inserts.
Created == DOMAIN wallets' \ DOMAIN wallets

\* C29: a wallet created by /v1/wallet/create or /v1/register starts with
\* 150 points exactly when it is created with privacy enabled
\* (privacyEnabled true) and with 100 points otherwise, including when
\* privacy was requested but stealth-key generation failed.
C29_CreationPointsFollowPrivacy ==
    [][\A w \in Created :
          wallets'[w].points = IF wallets'[w].privacyEnabled THEN 150 ELSE 100]_vars

\* Supporting C29: a created wallet starts with 150 points exactly when
\* the request asked for privacy, whether or not the keys were generated.
CreationPointsFollowRequest ==
    [][\A w \in Created :
          wallets'[w].points = IF returned'.request.enablePrivacy THEN 150 ELSE 100]_vars

\* C29's case: a wallet has been created for a request that asked for
\* privacy and whose stealth-key generation failed.
C29_CreatedAfterFailedGeneration ==
    /\ returned.fn \in {"POST /v1/wallet/create", "POST /v1/register"}
    /\ returned.status = 200
    /\ returned.request.enablePrivacy
    /\ ~returned.body.privacyEnabled
    /\ \E w \in DOMAIN wallets :
          /\ wallets[w].apiKey = returned.body.apiKey
          /\ ~wallets[w].privacyEnabled
          /\ wallets[w].points = 150

\* The stealth meta-address and keys of a wallet.
StealthFields(wallet) ==
    <<wallet.stealthMetaAddress, wallet.stealthSpendingKey, wallet.stealthViewingKey>>

\* C30: over any sequence and any interleaving of POST
\* /v1/wallet/:id/enable-privacy requests for one wallet, the wallet
\* receives the +50 bonus at most once (a step gives the bonus only to a
\* wallet whose privacy is not enabled yet, and privacy, once enabled,
\* stays enabled), and once its stealth meta-address and keys are set they
\* never change.
C30_BonusOnce ==
    [][\A w \in DOMAIN wallets :
          /\ wallets[w].privacyEnabled => wallets'[w].privacyEnabled
          /\ ( /\ returned'.fn = "POST /v1/wallet/:id/enable-privacy"
               /\ wallets'[w].points # wallets[w].points )
             => /\ ~wallets[w].privacyEnabled
                /\ wallets'[w].points = wallets[w].points + 50
          /\ wallets[w].stealthMetaAddress # Unset
             => StealthFields(wallets'[w]) = StealthFields(wallets[w])]_vars

\* C30's case: an enable-privacy handler has come back from its await to
\* a wallet whose privacy another handler enabled meanwhile, and has given
\* the bonus again (no wallet starts with more than 150 points).
C30_BonusGivenTwice ==
    /\ returned.fn = "POST /v1/wallet/:id/enable-privacy"
    /\ returned.status = 200
    /\ returned.body.message = "Privacy enabled via Sipher"
    /\ \E w \in DOMAIN wallets :
          /\ wallets[w].apiKey = returned.request.authorization
          /\ wallets[w].points >= 250


(***************************************************************************)
(* Claims about the authenticated routes (checked under SpecTransfers)     *)
(***************************************************************************)
AuthenticatedRoutes ==
    {"POST /v1/wallet/send", "POST /v1/wallet/send-to-agent",
     "POST /v1/wallet/:id/enable-privacy", "POST /v1/wallet/scan-private",
     "POST /v1/wallet/claim-private"}

\* A step in which a request to an authenticated route arrives and is
\* answered before its handler awaits anything.
AnsweredAtOnce ==
    /\ returned = NoCall
    /\ returned' # NoCall
    /\ returned'.fn \in AuthenticatedRoutes
    /\ pending' = pending

\* The wallet the request answered in this step names: the wallet :id
\* finds for enable-privacy (Unset when it finds none), the walletId or
\* fromWalletId of the body for the other routes.
NamedWallet ==
    IF returned'.fn = "POST /v1/wallet/:id/enable-privacy"
    THEN WalletNamed(returned'.request.id)
    ELSE returned'.request.walletId

\* The types of the records of outgoing transactions.
OutgoingTypes == {"send", "agent_transfer", "private_send"}

\* Wallet w's list has a new last record in this step, an outgoing one.
OutgoingRecorded(w) ==
    /\ Len(transactions'[w]) = Len(transactions[w]) + 1
    /\ transactions'[w][Len(transactions'[w])].type \in OutgoingTypes

\* C28: a request to send, send-to-agent, enable-privacy, scan-private or
\* claim-private whose API key is missing or unknown is answered 401, and
\* one whose API key belongs to a wallet other than the wallet the request
\* names is answered 403, and in both cases wallets, transaction lists and
\* points are left as they were; a handler only ever suspends holding the
\* key of the wallet it works on, and a step that records an outgoing
\* transaction on a wallet answers a request that carried that wallet's
\* own API key.
C28_Authorization ==
    [][/\ AnsweredAtOnce =>
            LET key == returned'.request.authorization
            IN  /\ key \notin DOMAIN apiKeys
                   => returned'.status = 401 /\ UNCHANGED apiVars
                /\ ( /\ key \in DOMAIN apiKeys
                     /\ NamedWallet # Unset
                     /\ apiKeys[key] # NamedWallet )
                   => returned'.status = 403 /\ UNCHANGED apiVars
       /\ \A handler \in BagToSet(pending') :
             handler.route \in AuthenticatedRoutes
                => MapGet(apiKeys', handler.apiKey) = handler.walletId
       /\ \A w \in DOMAIN transactions :
             OutgoingRecorded(w)
                => /\ returned'.fn \in AuthenticatedRoutes
                   /\ returned'.request.authorization = wallets[w].apiKey
                   /\ MapGet(apiKeys, wallets[w].apiKey) = w]_vars

\* C28's case: while two wallets exist, a send-to-agent request that names
\* one of them under the API key of the other has been answered 403.
C28_OtherWalletsKeyRefused ==
    /\ returned.fn = "POST /v1/wallet/send-to-agent"
    /\ returned.status = 403
    /\ returned.request.walletId \in DOMAIN wallets
    /\ returned.request.authorization \in DOMAIN apiKeys
    /\ apiKeys[returned.request.authorization] # returned.request.walletId


(***************************************************************************)
(* Claims about the transfers (checked under SpecTransfers)                *)
(***************************************************************************)
SendRoutes == {"POST /v1/wallet/send", "POST /v1/wallet/send-to-agent"}

\* This step answers a send or send-to-agent request with success.
SendSucceeds ==
    /\ returned'.fn \in SendRoutes
    /\ returned'.status = 200

\* The points wallet w gains in this step.
PointsGained(w) == wallets'[w].points - wallets[w].points

\* The wallet that sends in the request this step answers.
Sender == returned'.request.walletId

\* The wallet of the agent that the send-to-agent request this step answers
\* names.
Recipient == walletsByAgent[returned'.body.toAgentId]

\* This step completes a public agent-to-agent transfer.
PublicAgentTransfer ==
    /\ SendSucceeds
    /\ returned'.fn = "POST /v1/wallet/send-to-agent"
    /\ ~returned'.body.isPrivate

\* min(10, max(1, floor(amount))) and min(20, max(2, floor(2 * amount))) of
\* the amount in the response of this step.
PointsOfSend ==
    IF returned'.body.isPrivate
    THEN Min(20, Max(2, (2 * returned'.body.amount) \div UnitsPerSol))
    ELSE Min(10, Max(1, returned'.body.amount \div UnitsPerSol))

\* C31 as stated: every successful public send or agent transfer adds
\* between 1 and 10 points to the sender, every successful private send
\* between 2 and 20, and a successful public agent-to-agent transfer adds
\* exactly 5 points to the recipient.
C31_SendPointsBounded ==
    [][SendSucceeds =>
          /\ PointsGained(Sender) = PointsOfSend
          /\ IF returned'.body.isPrivate
             THEN PointsGained(Sender) \in 2..20
             ELSE PointsGained(Sender) \in 1..10
          /\ PublicAgentTransfer => PointsGained(Recipient) = 5]_vars

\* C31 for transfers between two wallets, and for a transfer of a wallet to
\* its own agent: a successful send adds min(10, max(1, floor(amount)))
\* points (private: min(20, max(2, floor(2 * amount)))) to the sender for
\* sending, a public agent-to-agent transfer adds 5 to the recipient for
\* receiving, and when sender and recipient are one wallet that wallet gains
\* both, between 6 and 15 points; no other wallet's points change.
C31_SendPointsBoundedPerRole ==
    [][SendSucceeds =>
          LET selfTransfer == PublicAgentTransfer /\ Recipient = Sender
          IN  /\ PointsOfSend \in (IF returned'.body.isPrivate THEN 2..20 ELSE 1..10)
              /\ PointsGained(Sender) =
                    PointsOfSend + (IF selfTransfer THEN 5 ELSE 0)
              /\ (PublicAgentTransfer /\ ~selfTransfer) => PointsGained(Recipient) = 5
              /\ \A w \in DOMAIN wallets :
                    PointsGained(w) # 0
                       => \/ w = Sender
                          \/ PublicAgentTransfer /\ w = Recipient]_vars

\* C31's case: a public agent-to-agent transfer of 12 SOL between two
\* wallets has succeeded (the cap of 10 applies).
C31_TransferAboveCap ==
    /\ returned.fn = "POST /v1/wallet/send-to-agent"
    /\ returned.status = 200
    /\ ~returned.body.isPrivate
    /\ returned.body.amount = 12 * UnitsPerSol
    /\ walletsByAgent[returned.body.toAgentId] # returned.request.walletId


\* This step answers a send or send-to-agent request with an error.
SendFails ==
    /\ returned'.fn \in SendRoutes
    /\ returned'.status # 200

\* This step suspends the handler of a send or send-to-agent request at its
\* call of buildShieldedTransfer.
SendSuspends ==
    \E handler \in BagToSet(pending') :
       /\ handler.route \in SendRoutes
       /\ CopiesIn(handler, pending') > CopiesIn(handler, pending)

\* C32: a step in which /v1/wallet/send or /v1/wallet/send-to-agent answers
\* with an error (401, 403, 404, 400, or 500 after the failure of the
\* shielded-transfer call) appends no transaction to any list and changes
\* no wallet, so no txCount and no points; the step that suspends such a
\* handler at the external call changes none of them either.
C32_FailedSendsChangeNothing ==
    [][(SendFails \/ SendSuspends)
          => /\ wallets' = wallets
             /\ transactions' = transactions
             /\ walletsByAgent' = walletsByAgent
             /\ apiKeys' = apiKeys]_vars

\* C32's case: a private send has been answered 500 after the failure of
\* buildShieldedTransfer.
C32_ShieldedTransferFailed ==
    /\ returned.fn = "POST /v1/wallet/send"
    /\ returned.status = 500


\* The number of outgoing records in the transaction list of wallet w.
OutgoingRecords(w) ==
    Cardinality({i \in 1..Len(transactions[w]) :
                   transactions[w][i].type \in OutgoingTypes})

\* C33: in every reachable state each wallet's txCount equals the number of
\* records of type send, agent_transfer or private_send in its transaction
\* list, so receive and private_receive records leave txCount as it was.
C33_TxCountMatchesLedger ==
    \A w \in DOMAIN wallets :
       /\ w \in DOMAIN transactions
       /\ wallets[w].txCount = OutgoingRecords(w)

\* C33's case: after a public agent-to-agent transfer, the recipient's list
\* holds a receive record while its txCount is 0, and the sender's txCount
\* is 1.
C33_ReceivedWithoutCount ==
    \E w \in DOMAIN wallets : \E v \in DOMAIN wallets :
       /\ w # v
       /\ Len(transactions[w]) = 1
       /\ transactions[w][1].type = "receive"
       /\ wallets[w].txCount = 0
       /\ wallets[v].txCount = 1


(***************************************************************************)
(* Claims about the four maps (checked under SpecAccounts)                 *)
(***************************************************************************)
\* Every entry of apiKeys names a wallet of `wallets` whose apiKey is the
\* key, and every wallet has a transaction list.
KeysAndListsConsistent ==
    /\ \A key \in DOMAIN apiKeys :
          /\ apiKeys[key] \in DOMAIN wallets
          /\ wallets[apiKeys[key]].apiKey = key
    /\ \A w \in DOMAIN wallets : w \in DOMAIN transactions

\* C34: in every reachable state every entry apiKey -> walletId of apiKeys
\* names a wallet of `wallets` whose apiKey field is that key, and every
\* wallet has a transaction list and is the value of walletsByAgent at its
\* agentId.
C34_IndexConsistent ==
    /\ KeysAndListsConsistent
    /\ \A w \in DOMAIN wallets :
          MapGet(walletsByAgent, wallets[w].agentId) = w

\* C34's case: two creation handlers of one agent have both inserted their
\* wallet, and walletsByAgent names the later one only, while the key of
\* the earlier one still passes authMiddleware.
C34_WalletMissingFromAgentIndex ==
    \E w \in DOMAIN wallets :
       /\ MapGet(walletsByAgent, wallets[w].agentId) # w
       /\ authMiddleware(wallets[w].apiKey).walletId = w


\* The stealth meta-address and both stealth keys of a wallet are set.
KeysSet(wallet) ==
    /\ wallet.stealthMetaAddress # Unset
    /\ wallet.stealthSpendingKey # Unset
    /\ wallet.stealthViewingKey # Unset

\* One of the three is set.
SomeKeySet(wallet) ==
    \/ wallet.stealthMetaAddress # Unset
    \/ wallet.stealthSpendingKey # Unset
    \/ wallet.stealthViewingKey # Unset

=============================================================================
